---- MODULE Spec2Model ----
(***************************************************************************)
(* Model of the uniweb-cli-tests harness: the TestEnvironment sandbox      *)
(* (tests/setup/test-helpers.js), its fluent operations, and the external  *)
(* `uniweb` tool seen as a black box that is started in a directory and    *)
(* leaves an exit status and filesystem effects behind.                    *)
(*                                                                         *)
(* A path is a sequence of path components; a text is a sequence of        *)
(* characters; the parsed form of a page.yml is a record.                  *)
(***************************************************************************)
EXTENDS Integers, Sequences, FiniteSets, TLC

VARIABLES
  cwd,      \* process.cwd(): the working directory of the test process
  dirs,     \* the directories that exist
  files,    \* the regular files that exist: path -> content
  envs,     \* the TestEnvironment objects: tempDir, originalCwd
  nTmp,     \* number of directories fs.mkdtemp has handed out
  calls,    \* the tool subprocesses started by the latest step
  res,      \* the record returned by the latest runUniweb
  last,     \* what the latest step was and how it ended
  thrown,   \* the test body has been left by an exception
  chain,    \* the statement of the test body that is being evaluated
  batch,    \* the BatchOperations object of the test body
  checks,   \* the AssertionChain object of the test body
  builder,  \* the ContentBuilder object of the test body
  lookup,   \* the latest dotted-path resolution
  perf,     \* the PerformanceHelper object of the test body
  got       \* what the latest accessor of the sandbox was asked and returned

\* the objects of the helper classes, and the value of the latest accessor
helpers == <<batch, checks, builder, lookup, perf, got>>

vars == <<cwd, dirs, files, envs, nTmp, calls, res, last, thrown, chain,
          batch, checks, builder, lookup, perf, got>>

----------------------------------------------------------------------------
(* Bounds *)

MaxSetups == 2      \* calls of setup() (fs.mkdtemp) in one run
MaxSections == 3    \* entries of a manifest that sections are still added to
MaxBatch == 3       \* records declared on one batch
MaxExecutes == 2    \* calls of execute() on one batch
MaxChecks == 3      \* checks declared on one assertion chain
MaxBlocks == 2      \* body blocks of one content builder

----------------------------------------------------------------------------
(* Paths *)

NullDir == <<"null">>          \* this.tempDir = null
HomeDir == <<"home">>          \* where the test process is started
TmpBase == <<"tmp">>           \* temporaryDirectory (temp-dir)
TmpNames == <<"uniweb-test-1", "uniweb-test-2", "uniweb-test-3", "uniweb-test-4">>

IsPrefix(p, q) == Len(p) <= Len(q) /\ SubSeq(q, 1, Len(p)) = p

RECURSIVE Normalize(_, _)
\* path.join / path.resolve: "." is dropped and ".." removes the component
\* before it
Normalize(done, todo) ==
  IF todo = <<>> THEN done
  ELSE LET c == Head(todo) IN
    IF c = "." THEN Normalize(done, Tail(todo))
    ELSE IF c = ".." THEN
      Normalize(IF done = <<>> THEN <<>> ELSE SubSeq(done, 1, Len(done) - 1),
                Tail(todo))
    ELSE Normalize(Append(done, c), Tail(todo))

PathJoin(base, rel) == Normalize(<<>>, base \o rel)

RECURSIVE Ancestors(_)
\* a path and every directory above it
Ancestors(p) ==
  IF p = <<>> THEN {} ELSE {p} \cup Ancestors(SubSeq(p, 1, Len(p) - 1))

----------------------------------------------------------------------------
(* The filesystem: F is a record [dirs, files] *)

NL == "\n"
EmptyText == <<>>
NoDoc == [valid |-> FALSE, hasSections |-> FALSE, sections |-> <<>>]
TextFile(t) == [kind |-> "text", text |-> t, doc |-> NoDoc]
\* a page.yml, kept in the form yaml.parse gives it
YamlFile(d) == [kind |-> "yaml", text |-> EmptyText, doc |-> d]
Manifest(secs) == [valid |-> TRUE, hasSections |-> TRUE, sections |-> secs]
Leaf(n) == [name |-> n, nested |-> FALSE, kids |-> <<>>]

PathExists(F, p) == p \in F.dirs \/ p \in DOMAIN F.files

MkdirP(F, p) == [F EXCEPT !.dirs = @ \cup Ancestors(p)]

WriteFile(F, p, c) ==
  [dirs |-> F.dirs \cup Ancestors(SubSeq(p, 1, Len(p) - 1)),
   files |-> [q \in DOMAIN F.files \cup {p} |->
                IF q = p THEN c ELSE F.files[q]]]

\* fs.remove(dir): the directory and everything below it
Remove(F, p) ==
  [dirs |-> {d \in F.dirs : ~IsPrefix(p, d)},
   files |-> [q \in {f \in DOMAIN F.files : ~IsPrefix(p, f)} |-> F.files[q]]]

----------------------------------------------------------------------------
(* Texts *)

RECURSIVE FirstLine(_)
\* content.split("\n")[0]
FirstLine(t) ==
  IF t = <<>> \/ Head(t) = NL THEN <<>>
  ELSE <<Head(t)>> \o FirstLine(Tail(t))

\* String.prototype.includes, as used by expect(...).toContain on a string
TextContains(t, sub) ==
  \E i \in 1..(Len(t) + 1) :
    i + Len(sub) - 1 <= Len(t) /\ SubSeq(t, i, i + Len(sub) - 1) = sub

\* the bodies the tests pass to setSection, by name
Bodies == {"about-me", "bio"}
BodyText(b) ==
  IF b = "about-me" THEN <<"#", "A", NL, NL, "B">>
  ELSE IF b = "bio" THEN <<"B">>
  ELSE EmptyText

\* locales.split(",")
LocaleArgs == {"fr", "fr,es"}
SplitLocales(l) == IF l = "fr,es" THEN <<"fr", "es">> ELSE <<l>>

----------------------------------------------------------------------------
(* The values yaml.parse gives and a test expects: tagged records *)

Undefined == [t |-> "undefined"]
Null == [t |-> "null"]
Str(s) == [t |-> "string", s |-> s]
Num(n) == [t |-> "number", n |-> n]
List(es) == [t |-> "sequence", e |-> es]
Map(f) == [t |-> "mapping", m |-> f]
NoKeys == [k \in {} |-> Undefined]
\* what evaluating x[key] on null or undefined throws
TypeError == [t |-> "TypeError"]

\* the dotted paths of the tests, and path.split(".")
Properties ==
  {"sections", "sections.length", "sections.0", "sections.1.tabs", "a.b",
   "a.b.c", "missing.key", ""}

SplitPath(property) ==
  CASE property = "sections" -> <<"sections">>
    [] property = "sections.length" -> <<"sections", "length">>
    [] property = "sections.0" -> <<"sections", "0">>
    [] property = "sections.1.tabs" -> <<"sections", "1", "tabs">>
    [] property = "a.b" -> <<"a", "b">>
    [] property = "a.b.c" -> <<"a", "b", "c">>
    [] property = "missing.key" -> <<"missing", "key">>
    [] OTHER -> <<property>>

\* the place in a sequence or string that a key names, 0 when it names none
IndexOf(key) ==
  CASE key = "0" -> 1 [] key = "1" -> 2 [] key = "2" -> 3 [] OTHER -> 0

\* Get with current[key] in the place of current?.[key]
Get_Unguarded(current, key) ==
  IF current.t \in {"undefined", "null", "TypeError"} THEN TypeError
  ELSE IF current.t = "mapping"
    THEN IF key \in DOMAIN current.m THEN current.m[key] ELSE Undefined
  ELSE IF current.t = "sequence"
    THEN IF key = "length" THEN Num(Len(current.e))
         ELSE IF IndexOf(key) \in 1..Len(current.e)
           THEN current.e[IndexOf(key)]
         ELSE Undefined
  ELSE IF current.t = "string"
    THEN IF key = "length" THEN Num(Len(current.s))
         ELSE IF IndexOf(key) \in 1..Len(current.s)
           THEN Str(SubSeq(current.s, IndexOf(key), IndexOf(key)))
         ELSE Undefined
  ELSE Undefined

\* current?.[key]
Get(current, key) ==
  IF current.t \in {"undefined", "null"} THEN Undefined
  ELSE IF current.t = "TypeError" THEN TypeError
  ELSE IF current.t = "mapping"
    THEN IF key \in DOMAIN current.m THEN current.m[key] ELSE Undefined
  ELSE IF current.t = "sequence"
    THEN IF key = "length" THEN Num(Len(current.e))
         ELSE IF IndexOf(key) \in 1..Len(current.e)
           THEN current.e[IndexOf(key)]
         ELSE Undefined
  ELSE IF current.t = "string"
    THEN IF key = "length" THEN Num(Len(current.s))
         ELSE IF IndexOf(key) \in 1..Len(current.s)
           THEN Str(SubSeq(current.s, IndexOf(key), IndexOf(key)))
         ELSE Undefined
  ELSE Undefined

RECURSIVE Reduce(_, _)
\* keys.reduce((current, key) => current?.[key], obj)
Reduce(obj, keys) ==
  IF keys = <<>> THEN obj ELSE Reduce(Get(obj, Head(keys)), Tail(keys))

\* getNestedProperty(obj, path)
GetNestedProperty(obj, property) == Reduce(obj, SplitPath(property))

\* expectYamlProperty from the parsed document on: the resolution, then
\* expect(actualValue).toEqual(expectedValue)
PropertyCheck(doc, property, expected) ==
  [made |-> TRUE, doc |-> doc, property |-> property, expected |-> expected,
   value |-> GetNestedProperty(doc, property),
   raised |-> GetNestedProperty(doc, property) = TypeError,
   status |-> IF GetNestedProperty(doc, property) = TypeError THEN "typeError"
              ELSE IF GetNestedProperty(doc, property) = expected THEN "ok"
              ELSE "assertFailed"]

\* a section entry and a parsed page.yml as values
EntryValue(x) ==
  IF x.nested
  THEN Map([k \in {x.name} |-> List([i \in 1..Len(x.kids) |-> Str(x.kids[i])])])
  ELSE Str(x.name)

ToValue(d) ==
  IF ~d.valid THEN Null
  ELSE IF ~d.hasSections THEN Map(NoKeys)
  ELSE Map([k \in {"sections"} |->
              List([i \in 1..Len(d.sections) |-> EntryValue(d.sections[i])])])

----------------------------------------------------------------------------
(* The argument vector of a tool invocation: a sequence of strings *)

HasFlag(argv, flag) == \E i \in 1..Len(argv) : argv[i] = flag

\* the word after the flag, "" when the flag is not given
FlagValue(argv, flag) ==
  IF \E i \in 1..(Len(argv) - 1) : argv[i] = flag
  THEN argv[(CHOOSE i \in 1..(Len(argv) - 1) :
               argv[i] = flag /\ \A j \in 1..(i - 1) : argv[j] # flag) + 1]
  ELSE ""

\* the command words: "init", or the first two words ("add page", ...)
Command(argv) ==
  IF argv = <<>> THEN <<>>
  ELSE IF argv[1] = "init" \/ Len(argv) < 2 THEN <<argv[1]>>
  ELSE <<argv[1], argv[2]>>

\* the positional name: the word after the command words
ArgName(argv) ==
  LET k == Len(Command(argv)) + 1 IN IF k <= Len(argv) THEN argv[k] ELSE ""

----------------------------------------------------------------------------
(* The external tool.  It is a black box to the harness: started in a      *)
(* directory, it ends with an exit status and has changed some files       *)
(* below that directory.  An outcome is a record                           *)
(*   launched  the executable could be started                             *)
(*   exit      its exit code, NoExitCode when there is none                *)
(*   effect    what it did to the files                                    *)
(*   stdout, stderr, message   its output and execa's error message        *)

NoExitCode == -1

LaunchFailure ==
  [launched |-> FALSE, exit |-> NoExitCode, effect |-> "none",
   stdout |-> "", stderr |-> "", message |-> "spawn uniweb ENOENT"]

ExitFailure(code, text) ==
  [launched |-> TRUE, exit |-> code, effect |-> "none",
   stdout |-> "", stderr |-> text,
   message |-> "Command failed with exit code: " \o text]

ExitSuccess(eff) ==
  [launched |-> TRUE, exit |-> 0, effect |-> eff,
   stdout |-> "done", stderr |-> "", message |-> ""]

\* where a command's page directory lies, relative to the directory the
\* tool runs in: [sites/<site>/]pages[/<page>]
ToolPagesDir(argv) ==
  (IF FlagValue(argv, "--site") # ""
   THEN <<"sites", FlagValue(argv, "--site")>> ELSE <<>>) \o <<"pages">>

ToolPageDir(argv) ==
  ToolPagesDir(argv) \o
  (IF FlagValue(argv, "--page") # "" THEN <<FlagValue(argv, "--page")>>
   ELSE <<>>)

SectionsOf(F, p) ==
  IF p \in DOMAIN F.files /\ F.files[p].doc.hasSections
  THEN F.files[p].doc.sections ELSE <<>>

RECURSIVE Without(_, _)
Without(secs, n) ==
  IF secs = <<>> THEN <<>>
  ELSE IF Head(secs) = Leaf(n) THEN Without(Tail(secs), n)
  ELSE <<Head(secs)>> \o Without(Tail(secs), n)

HasLeaf(secs, n) == \E i \in 1..Len(secs) : secs[i] = Leaf(n)

\* the mapping element {parent: [kids...]} of a sections sequence
Mapping(parent, kids) == [name |-> parent, nested |-> TRUE, kids |-> kids]

\* --position under:<parent>: the parent the section goes under, "" when the
\* position does not name one
Positions == {"", "under:tabs"}
UnderParent(pos) == IF pos = "under:tabs" THEN "tabs" ELSE ""

InSeq(x, sq) == \E i \in 1..Len(sq) : sq[i] = x

\* child placed under parent: the parent's entry becomes (or stays) a mapping
\* element with child at the end of its list
Nest(secs, parent, child) ==
  IF \E i \in 1..Len(secs) : secs[i].name = parent
  THEN [i \in 1..Len(secs) |->
          IF secs[i].name = parent
          THEN Mapping(parent, IF InSeq(child, secs[i].kids) THEN secs[i].kids
                               ELSE Append(secs[i].kids, child))
          ELSE secs[i]]
  ELSE Append(secs, Mapping(parent, <<child>>))

RECURSIVE MkLocales(_, _, _)
MkLocales(F, base, codes) ==
  IF codes = <<>> THEN F
  ELSE MkLocales(MkdirP(F, base \o <<Head(codes)>>), base, Tail(codes))

\* the project files `init` lays down in root
InitFiles(F, root, argv) ==
  LET F1 == WriteFile(WriteFile(MkdirP(F, root),
                        root \o <<"package.json">>, TextFile(EmptyText)),
                        root \o <<"uniweb.config.js">>, TextFile(EmptyText))
      F2 == IF HasFlag(argv, "--single-site")
            THEN MkdirP(WriteFile(F1, root \o <<"site.yml">>,
                                  YamlFile(NoDoc)), root \o <<"pages">>)
            ELSE F1
      s  == FlagValue(argv, "--site")
  IN IF s # ""
     THEN MkdirP(WriteFile(F2, root \o <<"sites", s, "site.yml">>,
                           YamlFile(NoDoc)), root \o <<"sites", s, "pages">>)
     ELSE F2

\* The files after the tool, started in directory dir, has had the effect
\* eff.  "here" is the effect the command is meant to have (spec section 6,
\* persisted state layout); the others are what a faulty tool may do:
\* "file-only" leaves page.yml alone, "twice" lists the section two times,
\* "flat" lists a positioned section at the top level.
ToolEffect(F, dir, argv, eff) ==
  LET cmd  == Command(argv)
      name == ArgName(argv)
      page == PathJoin(dir, ToolPageDir(argv))
      yml  == page \o <<"page.yml">>
      md   == page \o <<name \o ".md">>
  IN
  IF eff = "none" THEN F
  ELSE IF cmd = <<"init">> THEN InitFiles(F, PathJoin(dir, <<name>>), argv)
  ELSE IF cmd = <<"add", "page">> THEN
    WriteFile(F, PathJoin(dir, ToolPagesDir(argv) \o <<name, "page.yml">>),
              YamlFile(Manifest(<<>>)))
  ELSE IF cmd = <<"add", "section">> THEN
    LET F1 == WriteFile(F, md, TextFile(EmptyText))
        old == SectionsOf(F, yml)
    IN IF eff = "file-only" THEN F1
       ELSE IF eff = "twice"
         THEN WriteFile(F1, yml, YamlFile(Manifest(
                Without(old, name) \o <<Leaf(name), Leaf(name)>>)))
       ELSE IF eff = "here"
               /\ UnderParent(FlagValue(argv, "--position")) # ""
         THEN WriteFile(F1, yml, YamlFile(Manifest(
                Nest(old, UnderParent(FlagValue(argv, "--position")), name))))
       ELSE WriteFile(F1, yml, YamlFile(Manifest(
                IF HasLeaf(old, name) THEN old ELSE Append(old, Leaf(name)))))
  ELSE IF cmd = <<"set", "section">> THEN
    LET l == FlagValue(argv, "--locale")
        target == IF l # ""
                  THEN PathJoin(dir, <<"locales", l>> \o ToolPageDir(argv)
                                     \o <<name \o ".md">>)
                  ELSE md
    IN WriteFile(F, target, TextFile(BodyText(FlagValue(argv, "--body"))))
  ELSE IF cmd = <<"add", "locale">> THEN
    MkLocales(F, PathJoin(dir,
                (IF FlagValue(argv, "--site") # ""
                 THEN <<"sites", FlagValue(argv, "--site")>> ELSE <<>>)
                \o <<"locales">>), SplitLocales(name))
  ELSE F

\* what a run of the tool may do
Effects(argv) ==
  IF Command(argv) = <<"add", "section">>
    THEN IF FlagValue(argv, "--position") # ""
         THEN {"none", "here", "flat"}
         ELSE {"none", "here", "file-only", "twice"}
  ELSE IF Command(argv) \in {<<"init">>, <<"add", "page">>,
                             <<"set", "section">>, <<"add", "locale">>}
    THEN {"none", "here"}
  ELSE {"none"}

ToolOutcomes(argv) ==
  {LaunchFailure, ExitFailure(1, "error"), ExitFailure(2, "usage")}
    \cup {ExitSuccess(eff) : eff \in Effects(argv)}

\* A tool that does what each command is meant to do in the directory it is
\* started in: it finds the project it works on from that directory
\* (package.json), refuses a page or section that is not there, and refuses
\* to add a section twice.
CorrectOutcome(F, dir, argv) ==
  LET cmd  == Command(argv)
      name == ArgName(argv)
      page == PathJoin(dir, ToolPageDir(argv))
      inProject == PathExists(F, dir \o <<"package.json">>)
  IN
  IF cmd = <<"init">> THEN ExitSuccess("here")
  ELSE IF ~inProject THEN ExitFailure(1, "Not a uniweb project")
  ELSE IF cmd = <<"add", "page">> THEN
    IF PathExists(F, PathJoin(dir, ToolPagesDir(argv)))
    THEN ExitSuccess("here") ELSE ExitFailure(1, "Site not found")
  ELSE IF cmd = <<"add", "section">> THEN
    IF ~PathExists(F, page \o <<"page.yml">>)
      THEN ExitFailure(1, "Page not found")
    ELSE IF PathExists(F, page \o <<name \o ".md">>)
      THEN ExitFailure(1, "Section already exists")
    ELSE ExitSuccess("here")
  ELSE IF cmd = <<"set", "section">> THEN
    IF PathExists(F, page \o <<name \o ".md">>)
    THEN ExitSuccess("here") ELSE ExitFailure(1, "Section not found")
  ELSE IF cmd = <<"add", "locale">> THEN ExitSuccess("here")
  ELSE ExitFailure(1, "Unknown command")

----------------------------------------------------------------------------
(* TestEnvironment.  A step of the test process threads a record W through *)
(* the helpers it calls:                                                   *)
(*   cwd, F        process.cwd() and the filesystem                        *)
(*   calls         the subprocesses started so far, each with the          *)
(*                 directory it was given, process.cwd() at that time and  *)
(*                 how the subprocess ended                                *)
(*   res           the latest result record of runUniweb                   *)
(*   status, msg   "ok", or how the step was left by a throw               *)
(*   examined      the paths the accessors have looked at                  *)

NoResult ==
  [raised |-> FALSE, success |-> FALSE, stdout |-> "", stderr |-> "",
   exitCode |-> NoExitCode, hasError |-> FALSE, error |-> ""]

Begin(c, F) ==
  [cwd |-> c, F |-> F, calls |-> <<>>, res |-> NoResult,
   status |-> "ok", msg |-> "", examined |-> {}, started |-> 0]

Throw(W, st, m) == [W EXCEPT !.status = st, !.msg = m]

\* the directory execa starts the subprocess in: options.cwd || process.cwd()
SpawnDir(tempDir, c) == IF tempDir # NullDir THEN tempDir ELSE c

\* a || b on strings
OrElse(a, b) == IF a # "" THEN a ELSE b

\* ResultRecord with `exitCode: error.exitCode` (no `|| 1`)
ResultRecord_NoDefaultExitCode(o) ==
  IF o.launched /\ o.exit = 0
  THEN [raised |-> FALSE, success |-> TRUE, stdout |-> o.stdout,
        stderr |-> o.stderr, exitCode |-> o.exit,
        hasError |-> FALSE, error |-> ""]
  ELSE [raised |-> FALSE, success |-> FALSE, stdout |-> OrElse(o.stdout, ""),
        stderr |-> OrElse(o.stderr, ""), exitCode |-> o.exit,
        hasError |-> TRUE, error |-> o.message]

\* runUniweb's return value for an outcome of the subprocess: execa resolves
\* when the tool was started and exited with 0 and rejects otherwise
ResultRecord(o) ==
  IF o.launched /\ o.exit = 0
  THEN [raised |-> FALSE, success |-> TRUE, stdout |-> o.stdout,
        stderr |-> o.stderr, exitCode |-> o.exit,
        hasError |-> FALSE, error |-> ""]
  ELSE [raised |-> FALSE, success |-> FALSE, stdout |-> OrElse(o.stdout, ""),
        stderr |-> OrElse(o.stderr, ""),
        exitCode |-> IF o.exit \in {NoExitCode, 0} THEN 1 ELSE o.exit,
        hasError |-> TRUE, error |-> o.message]

\* a subprocess cannot be started in a directory that does not exist
Spawned(F, dir, o) == IF dir \in F.dirs THEN o ELSE LaunchFailure

RunUniweb(W, tempDir, argv, o) ==
  LET dir == SpawnDir(tempDir, W.cwd)
      so == Spawned(W.F, dir, o)
  IN
  [W EXCEPT
     !.F = IF so.launched THEN ToolEffect(W.F, dir, argv, so.effect) ELSE @,
     !.calls = Append(@, [argv |-> argv, dir |-> dir, active |-> W.cwd,
                          outcome |-> so]),
     !.res = ResultRecord(so)]

\* ExpectCommandSuccess that returns the result without the expect
ExpectCommandSuccess_NoThrow(W, tempDir, argv, o) ==
  RunUniweb(W, tempDir, argv, o)

\* expect(result.success, "... Error: ${result.error || result.stderr}")
ExpectCommandSuccess(W, tempDir, argv, o) ==
  LET W1 == RunUniweb(W, tempDir, argv, o) IN
  IF W1.res.raised THEN Throw(W1, "error", W1.res.error)
  ELSE IF W1.res.success THEN W1
  ELSE Throw(W1, "commandFailed", OrElse(W1.res.error, W1.res.stderr))

\* fileExists: fs.pathExists(path.join(this.tempDir, filePath)); path.join
\* throws a TypeError for a null argument
ExpectFileExists(W, tempDir, rel) ==
  IF W.status # "ok" THEN W
  ELSE IF tempDir = NullDir THEN Throw(W, "typeError", "path")
  ELSE LET p == PathJoin(tempDir, rel)
           W1 == [W EXCEPT !.examined = @ \cup {p}]
       IN IF PathExists(W.F, p) THEN W1
          ELSE Throw(W1, "assertFailed", "Expected file to exist")

\* readFile after expectFileExists: a directory cannot be read
ExpectFileContains(W, tempDir, rel, sub) ==
  LET W1 == ExpectFileExists(W, tempDir, rel)
      p == PathJoin(tempDir, rel)
  IN IF W1.status # "ok" THEN W1
     ELSE IF p \notin DOMAIN W1.F.files THEN Throw(W1, "readError", "EISDIR")
     ELSE IF TextContains(W1.F.files[p].text, sub) THEN W1
     ELSE Throw(W1, "assertFailed", "Expected file to contain")

\* expect(actualValue).toContain(expectedValue) on the "sections" entry:
\* an element of the sequence is the expected string
ExpectYamlContains(W, tempDir, rel, expected) ==
  LET W1 == ExpectFileExists(W, tempDir, rel)
      p == PathJoin(tempDir, rel)
  IN IF W1.status # "ok" THEN W1
     ELSE IF p \notin DOMAIN W1.F.files THEN Throw(W1, "readError", "EISDIR")
     ELSE IF ~W1.F.files[p].doc.valid \/ ~W1.F.files[p].doc.hasSections
       THEN Throw(W1, "assertFailed", "received value must be an array")
     ELSE IF \E i \in 1..Len(W1.F.files[p].doc.sections) :
               W1.F.files[p].doc.sections[i] = Leaf(expected)
       THEN W1
     ELSE Throw(W1, "assertFailed", "Expected sections to contain")

\* expectFileExists(filePath, message): message || `Expected file ... to exist`
ExpectFileExistsWith(W, tempDir, rel, message) ==
  IF ExpectFileExists(W, tempDir, rel).status = "assertFailed"
  THEN Throw(ExpectFileExists(W, tempDir, rel), "assertFailed",
             OrElse(message, ExpectFileExists(W, tempDir, rel).msg))
  ELSE ExpectFileExists(W, tempDir, rel)

\* expectFileContains(filePath, content, message): the message is that of
\* the toContain, the expectFileExists before it has its own
ExpectFileContainsWith(W, tempDir, rel, sub, message) ==
  IF ExpectFileExists(W, tempDir, rel).status = "ok"
     /\ ExpectFileContains(W, tempDir, rel, sub).status = "assertFailed"
  THEN Throw(ExpectFileContains(W, tempDir, rel, sub), "assertFailed",
             OrElse(message, ExpectFileContains(W, tempDir, rel, sub).msg))
  ELSE ExpectFileContains(W, tempDir, rel, sub)

\* expectYamlProperty(filePath, property, expectedValue, message)
ExpectYamlProperty(W, tempDir, rel, property, expected, message) ==
  IF ExpectFileExists(W, tempDir, rel).status # "ok"
    THEN ExpectFileExists(W, tempDir, rel)
  ELSE IF PathJoin(tempDir, rel) \notin DOMAIN W.F.files
    THEN Throw(ExpectFileExists(W, tempDir, rel), "readError", "EISDIR")
  ELSE IF PropertyCheck(ToValue(W.F.files[PathJoin(tempDir, rel)].doc),
                        property, expected).status = "ok"
    THEN ExpectFileExists(W, tempDir, rel)
  ELSE Throw(ExpectFileExists(W, tempDir, rel), "assertFailed",
             OrElse(message, "Expected property to equal"))

\* getDirectoryStructure(): what lies below the sandbox directory, each
\* entry a file or a directory; nothing when the directory is not there
DirectoryStructure(F, root) ==
  {[path |-> SubSeq(f, Len(root) + 1, Len(f)), kind |-> "file"]
     : f \in {g \in DOMAIN F.files : IsPrefix(root, g)}}
    \cup {[path |-> SubSeq(d, Len(root) + 1, Len(d)), kind |-> "directory"]
            : d \in {g \in F.dirs : IsPrefix(root, g) /\ g # root}}

\* expect(await getDirectoryStructure()).toMatchObject(expected): every
\* entry of expected is in the actual structure, as the same kind
ExpectDirectoryStructure(W, tempDir, expected) ==
  IF tempDir = NullDir THEN Throw(W, "typeError", "path")
  ELSE IF expected \subseteq DirectoryStructure(W.F, tempDir)
    THEN [W EXCEPT !.examined = @ \cup {tempDir}]
  ELSE Throw([W EXCEPT !.examined = @ \cup {tempDir}], "assertFailed",
             "toMatchObject")

\* ResolvePath that takes the path from the working directory
ResolvePath_FromCwd(W, tempDir, rel) == PathJoin(W.cwd, rel)

\* path.join(this.tempDir, filePath)
ResolvePath(W, tempDir, rel) == PathJoin(tempDir, rel)

Bool(b) == [t |-> "boolean", b |-> b]
Text(t) == [t |-> "text", chars |-> t]

\* An accessor gives back the record W and the value it returns.
\* fileExists(filePath): fs.pathExists never rejects
FileExists(W, tempDir, rel) ==
  IF tempDir = NullDir
  THEN [W |-> Throw(W, "typeError", "path"), value |-> Undefined]
  ELSE [W |-> [W EXCEPT !.examined = @ \cup {ResolvePath(W, tempDir, rel)}],
        value |-> Bool(PathExists(W.F, ResolvePath(W, tempDir, rel)))]

\* readFile(filePath): fs.readFile rejects for a path that is not there
\* (ENOENT) and for a directory (EISDIR)
ReadFile(W, tempDir, rel) ==
  IF tempDir = NullDir
    THEN [W |-> Throw(W, "typeError", "path"), value |-> Undefined]
  ELSE IF ~PathExists(W.F, ResolvePath(W, tempDir, rel))
    THEN [W |-> Throw([W EXCEPT !.examined =
                               @ \cup {ResolvePath(W, tempDir, rel)}],
                      "readError", "ENOENT"),
          value |-> Undefined]
  ELSE IF ResolvePath(W, tempDir, rel) \notin DOMAIN W.F.files
    THEN [W |-> Throw([W EXCEPT !.examined =
                               @ \cup {ResolvePath(W, tempDir, rel)}],
                      "readError", "EISDIR"),
          value |-> Undefined]
  ELSE [W |-> [W EXCEPT !.examined = @ \cup {ResolvePath(W, tempDir, rel)}],
        value |-> Text(W.F.files[ResolvePath(W, tempDir, rel)].text)]

\* readYaml(filePath): yaml.parse of what readFile gives
ReadYaml(W, tempDir, rel) ==
  IF ReadFile(W, tempDir, rel).W.status # "ok" THEN ReadFile(W, tempDir, rel)
  ELSE [W |-> ReadFile(W, tempDir, rel).W,
        value |-> ToValue(W.F.files[ResolvePath(W, tempDir, rel)].doc)]

\* getDirectoryStructure(dir): the entries below path.join(this.tempDir,
\* dir), none when that directory is not there
GetDirectoryStructure(W, tempDir, rel) ==
  IF tempDir = NullDir
  THEN [W |-> Throw(W, "typeError", "path"), value |-> Undefined]
  ELSE [W |-> [W EXCEPT !.examined = @ \cup {ResolvePath(W, tempDir, rel)}],
        value |-> [t |-> "structure",
                   entries |-> DirectoryStructure(
                                 W.F, ResolvePath(W, tempDir, rel))]]

\* expectFileNotExists(filePath): expect(exists).toBe(false)
ExpectFileNotExists(W, tempDir, rel) ==
  IF W.status # "ok" THEN W
  ELSE IF tempDir = NullDir THEN Throw(W, "typeError", "path")
  ELSE IF PathExists(W.F, PathJoin(tempDir, rel))
    THEN Throw([W EXCEPT !.examined = @ \cup {PathJoin(tempDir, rel)}],
               "assertFailed", "Expected file to not exist")
  ELSE [W EXCEPT !.examined = @ \cup {PathJoin(tempDir, rel)}]

\* expectFilesExist(...filePaths): one expectFileExists after the other
RECURSIVE ExpectFilesExist(_, _, _)
ExpectFilesExist(W, tempDir, rels) ==
  IF rels = <<>> THEN W
  ELSE ExpectFilesExist(ExpectFileExists(W, tempDir, Head(rels)), tempDir,
                        Tail(rels))

\* expectStandardProjectStructure(type)
ExpectStandardProjectStructure(W, tempDir, type) ==
  IF type = "single-site"
    THEN ExpectFileNotExists(
           ExpectFilesExist(W, tempDir,
             <<<<"package.json">>, <<"uniweb.config.js">>,
               <<"site.yml">>, <<"pages">>>>),
           tempDir, <<"sites">>)
  ELSE IF type = "workspace"
    THEN ExpectFileExists(
           ExpectFilesExist(W, tempDir,
             <<<<"package.json">>, <<"uniweb.config.js">>>>),
           tempDir, <<"sites">>)
  ELSE ExpectFilesExist(W, tempDir,
         <<<<"package.json">>, <<"uniweb.config.js">>>>)

\* process.chdir(target): ENOENT when the directory is not there
Chdir(W, target) ==
  IF target \in W.F.dirs THEN [W EXCEPT !.cwd = target]
  ELSE Throw(W, "chdirError", "ENOENT")

NoOptions ==
  [singleSite |-> FALSE, module |-> "", site |-> "", page |-> "",
   position |-> "", locale |-> ""]

Flag(flag, value) == IF value # "" THEN <<flag, value>> ELSE <<>>

InitArgs(name, opt) ==
  <<"init", name>>
    \o (IF opt.singleSite THEN <<"--single-site">> ELSE <<>>)
    \o Flag("--module", opt.module) \o Flag("--site", opt.site)

InitProject(W, tempDir, name, opt, o) ==
  LET W1 == ExpectCommandSuccess(W, tempDir, InitArgs(name, opt), o) IN
  IF W1.status # "ok" THEN W1
  ELSE IF name # "." THEN Chdir(W1, PathJoin(W1.cwd, <<name>>))
  ELSE W1

\* BasePath that forgets the site
BasePath_IgnoresSite(opt) == <<"pages">>

\* options.site ? `sites/${options.site}/pages` : "pages"
BasePath(opt) ==
  IF opt.site # "" THEN <<"sites", opt.site, "pages">> ELSE <<"pages">>

\* options.page ? `${basePath}/${options.page}` : basePath
PagePath(opt) ==
  IF opt.page # "" THEN BasePath(opt) \o <<opt.page>> ELSE BasePath(opt)

AddPageArgs(name, opt) == <<"add", "page", name>> \o Flag("--site", opt.site)

AddPage(W, tempDir, name, opt, o) ==
  LET W1 == ExpectCommandSuccess(W, tempDir, AddPageArgs(name, opt), o) IN
  ExpectFileExists(W1, tempDir, BasePath(opt) \o <<name, "page.yml">>)

AddSectionArgs(name, opt) ==
  <<"add", "section", name>> \o Flag("--page", opt.page)
    \o Flag("--site", opt.site) \o Flag("--position", opt.position)

\* AddSection without the expectYamlContains on page.yml
AddSection_FileOnly(W, tempDir, name, opt, o) ==
  LET W1 == ExpectCommandSuccess(W, tempDir, AddSectionArgs(name, opt), o)
  IN ExpectFileExists(W1, tempDir, PagePath(opt) \o <<name \o ".md">>)

AddSection(W, tempDir, name, opt, o) ==
  LET W1 == ExpectCommandSuccess(W, tempDir, AddSectionArgs(name, opt), o)
      W2 == ExpectFileExists(W1, tempDir, PagePath(opt) \o <<name \o ".md">>)
  IN IF W2.status # "ok" THEN W2
     ELSE ExpectYamlContains(W2, tempDir, PagePath(opt) \o <<"page.yml">>,
                             name)

SetSectionArgs(name, body, opt) ==
  <<"set", "section", name>> \o Flag("--page", opt.page)
    \o Flag("--site", opt.site) \o Flag("--locale", opt.locale)
    \o <<"--body", body>>

\* SetSectionFile without the locales/<locale>/ prefix
SetSectionFile_IgnoresLocale(name, opt) == PagePath(opt) \o <<name \o ".md">>

\* options.locale ? `locales/${options.locale}/${pagePath}/${name}.md`
\*                : `${pagePath}/${name}.md`
SetSectionFile(name, opt) ==
  (IF opt.locale # "" THEN <<"locales", opt.locale>> ELSE <<>>)
    \o PagePath(opt) \o <<name \o ".md">>

SetSection(W, tempDir, name, body, opt, o) ==
  LET W1 == ExpectCommandSuccess(W, tempDir, SetSectionArgs(name, body, opt),
                                 o)
  IN IF W1.status # "ok" THEN W1
     ELSE ExpectFileContains(W1, tempDir, SetSectionFile(name, opt),
                             FirstLine(BodyText(body)))

AddLocaleArgs(locales, opt) ==
  <<"add", "locale", locales>> \o Flag("--site", opt.site)

\* options.site ? `sites/${options.site}/locales/${locale}`
\*              : `locales/${locale}`
LocalePath(locale, opt) ==
  (IF opt.site # "" THEN <<"sites", opt.site>> ELSE <<>>)
    \o <<"locales", locale>>

RECURSIVE ExpectLocales(_, _, _, _)
ExpectLocales(W, tempDir, codes, opt) ==
  IF codes = <<>> \/ W.status # "ok" THEN W
  ELSE ExpectLocales(
         ExpectFileExists(W, tempDir, LocalePath(Head(codes), opt)),
         tempDir, Tail(codes), opt)

AddLocale(W, tempDir, locales, opt, o) ==
  LET W1 == ExpectCommandSuccess(W, tempDir, AddLocaleArgs(locales, opt), o)
  IN ExpectLocales(W1, tempDir, SplitLocales(locales), opt)

\* cd(directory): process.chdir(path.join(this.tempDir, directory))
Cd(W, tempDir, rel) ==
  IF tempDir = NullDir THEN Throw(W, "typeError", "path")
  ELSE Chdir(W, PathJoin(tempDir, rel))

NavigateToProject(W, tempDir, name) == Cd(W, tempDir, <<name>>)

NavigateToSite(W, tempDir, site) == Cd(W, tempDir, <<"sites", site>>)

NavigateToPage(W, tempDir, page, site) ==
  Cd(W, tempDir,
     (IF site # "" THEN <<"sites", site, "pages">> ELSE <<"pages">>)
       \o <<page>>)

----------------------------------------------------------------------------
(* The calls a test makes *)

ProjectNames == {"p", "."}
PageNames == {"about"}
SectionNames == {"hero"}
SiteOptions == {"", "main"}
LocaleOptions == {"", "fr"}

FluentOps == {"initProject", "addPage", "addSection", "setSection",
              "addLocale"}

Call(op, name, body, opt) ==
  [op |-> op, name |-> name, body |-> body, opt |-> opt]

\* the calls of the tests that move the sandbox around
LifecycleCalls ==
  {Call("initProject", n, "", [NoOptions EXCEPT !.singleSite = TRUE])
     : n \in ProjectNames}
    \cup {Call("addPage", n, "", NoOptions) : n \in PageNames}

\* the calls of the tests that build content
ContentCalls ==
  {Call("initProject", "p", "", [NoOptions EXCEPT !.singleSite = TRUE])}
    \cup {Call("addPage", n, "", [NoOptions EXCEPT !.site = s])
            : n \in PageNames, s \in SiteOptions}
    \cup {Call("addSection", n, "", [NoOptions EXCEPT !.page = pg, !.site = s])
            : n \in SectionNames, pg \in PageNames, s \in SiteOptions}
    \cup {Call("setSection", n, b, [NoOptions EXCEPT !.page = pg, !.locale = l])
            : n \in SectionNames, b \in Bodies, pg \in PageNames,
              l \in LocaleOptions}
    \cup {Call("addLocale", l, "", NoOptions) : l \in LocaleArgs}

CallArgs(c) ==
  IF c.op = "initProject" THEN InitArgs(c.name, c.opt)
  ELSE IF c.op = "addPage" THEN AddPageArgs(c.name, c.opt)
  ELSE IF c.op = "addSection" THEN AddSectionArgs(c.name, c.opt)
  ELSE IF c.op = "setSection" THEN SetSectionArgs(c.name, c.body, c.opt)
  ELSE AddLocaleArgs(c.name, c.opt)

\* env[c.op](...) awaited to its end
DoCall(W, tempDir, c, o) ==
  IF c.op = "initProject" THEN InitProject(W, tempDir, c.name, c.opt, o)
  ELSE IF c.op = "addPage" THEN AddPage(W, tempDir, c.name, c.opt, o)
  ELSE IF c.op = "addSection" THEN AddSection(W, tempDir, c.name, c.opt, o)
  ELSE IF c.op = "setSection"
    THEN SetSection(W, tempDir, c.name, c.body, c.opt, o)
  ELSE AddLocale(W, tempDir, c.name, c.opt, o)

----------------------------------------------------------------------------
(* State machine of the test process *)

Envs == {1, 2}

Fs == [dirs |-> dirs, files |-> files]

NoFiles == [q \in {} |-> TextFile(EmptyText)]

Step(op, e, W, warned) ==
  [op |-> op, env |-> e, status |-> W.status, msg |-> W.msg,
   examined |-> W.examined, warned |-> warned]

\* the variables a threaded record W stands for
Commit(op, e, W) ==
  /\ cwd' = W.cwd
  /\ dirs' = W.F.dirs
  /\ files' = W.F.files
  /\ calls' = W.calls
  /\ res' = W.res
  /\ last' = Step(op, e, W, FALSE)
  /\ thrown' = (W.status # "ok")

\* no statement under evaluation
NoChain ==
  [kind |-> "none", script |-> <<>>, todo |-> <<>>, recv |-> "none",
   inflight |-> <<>>, invoked |-> <<>>, overlap |-> FALSE]

\* no BatchOperations object yet.  operations is this.operations; the other
\* fields follow its use: pos is the place of execute() in its loop,
\* dispatched the calls execute() has made on the sandbox, value the value
\* of the latest call of a method of the object
NoBatch ==
  [made |-> FALSE, env |-> 0, operations |-> <<>>, state |-> "none",
   pos |-> 0, runs |-> 0, dispatched |-> <<>>, value |-> "none"]

\* no AssertionChain object yet.  assertions is this.assertions: a closure
\* is kept as the call it holds; pos is the place of verify() in its loop,
\* evaluated the closures it has called
NoChecks ==
  [made |-> FALSE, env |-> 0, assertions |-> <<>>, state |-> "none",
   pos |-> 0, evaluated |-> <<>>, value |-> "none"]
\* no ContentBuilder object yet.  frontMatter holds the keys of
\* this.frontMatter with their values in the order they were first set, body
\* is this.body; output is what the latest build() returned and built says
\* that nothing was declared since
NoBuilder ==
  [made |-> FALSE, frontMatter |-> <<>>, body |-> <<>>, built |-> FALSE,
   output |-> ""]
NoLookup == [made |-> FALSE]

\* no PerformanceHelper object yet.  metrics is this.metrics; timed and
\* elapsed are the name given to the latest timeOperation and the time its
\* operation took
NoPerf ==
  [made |-> FALSE, env |-> 0, metrics |-> [n \in {} |-> 0], timed |-> "",
   elapsed |-> 0]

\* no accessor called yet; path is the argument of the call, a path or the
\* kind of a layout
NoGot == [op |-> "none", path |-> <<>>, value |-> Undefined]

\* the test process after `new TestEnvironment()`
Constructed ==
  /\ got = NoGot
  /\ perf = NoPerf
  /\ batch = NoBatch
  /\ checks = NoChecks
  /\ builder = NoBuilder
  /\ lookup = NoLookup
  /\ cwd = HomeDir
  /\ dirs = {HomeDir, TmpBase}
  /\ files = NoFiles
  /\ envs = [e \in Envs |->
              [made |-> (e = 1), tempDir |-> NullDir,
               originalCwd |-> IF e = 1 THEN HomeDir ELSE NullDir]]
  /\ nTmp = 0
  /\ calls = <<>>
  /\ res = NoResult
  /\ last = Step("new", 1, Begin(HomeDir, [dirs |-> {}, files |-> NoFiles]),
                 FALSE)
  /\ thrown = FALSE

Init == Constructed /\ chain = NoChain

\* new TestEnvironment()
Construct(e) ==
  /\ ~thrown
  /\ cwd \in dirs            \* process.cwd() needs the directory to exist
  /\ envs' = [envs EXCEPT ![e] =
                [made |-> TRUE, tempDir |-> NullDir, originalCwd |-> cwd]]
  /\ last' = Step("new", e, Begin(cwd, Fs), FALSE)
  /\ calls' = <<>>
  /\ UNCHANGED <<cwd, dirs, files, nTmp, res, thrown, chain>>
  /\ UNCHANGED helpers

\* setup(): fs.mkdtemp hands out a name nobody has, then process.chdir
Setup(e) ==
  /\ envs[e].made /\ ~thrown
  /\ nTmp < MaxSetups
  /\ LET T == TmpBase \o <<TmpNames[nTmp + 1]>> IN
       /\ dirs' = dirs \cup Ancestors(T)
       /\ cwd' = T
       /\ envs' = [envs EXCEPT ![e].tempDir = T]
       /\ last' = Step("setup", e, Begin(T, Fs), FALSE)
  /\ nTmp' = nTmp + 1
  /\ calls' = <<>>
  /\ UNCHANGED <<files, res, thrown, chain>>
  /\ UNCHANGED helpers

\* CleanupResult without process.chdir(this.originalCwd)
CleanupResult_NoChdir(c, F, env, rmFails) ==
  IF env.tempDir = NullDir
    THEN [cwd |-> c, F |-> F, warned |-> FALSE, raised |-> FALSE]
  ELSE IF rmFails /\ env.tempDir \in F.dirs
    THEN [cwd |-> c, F |-> F, warned |-> TRUE, raised |-> FALSE]
  ELSE [cwd |-> c, F |-> Remove(F, env.tempDir),
        warned |-> FALSE, raised |-> FALSE]

\* CleanupResult without the try/catch
CleanupResult_NoCatch(c, F, env, rmFails) ==
  IF env.tempDir = NullDir
    THEN [cwd |-> c, F |-> F, warned |-> FALSE, raised |-> FALSE]
  ELSE IF env.originalCwd \notin F.dirs
    THEN [cwd |-> c, F |-> F, warned |-> FALSE, raised |-> TRUE]
  ELSE IF rmFails /\ env.tempDir \in F.dirs
    THEN [cwd |-> env.originalCwd, F |-> F, warned |-> FALSE,
          raised |-> TRUE]
  ELSE [cwd |-> env.originalCwd, F |-> Remove(F, env.tempDir),
        warned |-> FALSE, raised |-> FALSE]

\* cleanup(): chdir back, then fs.remove; whatever is thrown becomes a
\* warning.  rmFails: fs.remove cannot delete the directory.
CleanupResult(c, F, env, rmFails) ==
  IF env.tempDir = NullDir
    THEN [cwd |-> c, F |-> F, warned |-> FALSE, raised |-> FALSE]
  ELSE IF env.originalCwd \notin F.dirs
    THEN [cwd |-> c, F |-> F, warned |-> TRUE, raised |-> FALSE]
  ELSE IF rmFails /\ env.tempDir \in F.dirs
    THEN [cwd |-> env.originalCwd, F |-> F, warned |-> TRUE,
          raised |-> FALSE]
  ELSE [cwd |-> env.originalCwd, F |-> Remove(F, env.tempDir),
        warned |-> FALSE, raised |-> FALSE]

Cleanup(e, rmFails) ==
  /\ envs[e].made
  /\ LET r == CleanupResult(cwd, Fs, envs[e], rmFails) IN
       /\ cwd' = r.cwd
       /\ dirs' = r.F.dirs
       /\ files' = r.F.files
       /\ last' = Step("cleanup", e,
                       IF r.raised
                       THEN Throw(Begin(r.cwd, r.F), "error", "cleanup")
                       ELSE Begin(r.cwd, r.F), r.warned)
       /\ thrown' = r.raised
  /\ calls' = <<>>
  /\ UNCHANGED <<envs, nTmp, res, chain>>
  /\ UNCHANGED helpers

\* await env.<fluent operation>(...)
Fluent(e, c, o) ==
  /\ envs[e].made /\ ~thrown
  /\ Commit(c.op, e, DoCall(Begin(cwd, Fs), envs[e].tempDir, c, o))
  /\ UNCHANGED <<envs, nTmp, chain>>
  /\ UNCHANGED helpers

\* await env.runUniweb(args)
DirectArgs == {<<"add", "site", "main">>, <<"add", "page", "about">>}

RunTool(e, argv, o) ==
  /\ envs[e].made /\ ~thrown
  /\ LET W == RunUniweb(Begin(cwd, Fs), envs[e].tempDir, argv, o) IN
       Commit("runUniweb", e,
              IF W.res.raised THEN Throw(W, "error", W.res.error) ELSE W)
  /\ UNCHANGED <<envs, nTmp, chain>>
  /\ UNCHANGED helpers

\* env.cd(dir) and await env.navigateTo...(...)
CdArgs == {<<"p">>, <<"..">>}

CdStep(e, rel) ==
  /\ envs[e].made /\ ~thrown
  /\ Commit("cd", e, Cd(Begin(cwd, Fs), envs[e].tempDir, rel))
  /\ UNCHANGED <<envs, nTmp, chain>>
  /\ UNCHANGED helpers

Navigate(e, kind, name, site) ==
  /\ envs[e].made /\ ~thrown
  /\ Commit(kind, e,
       IF kind = "navigateToProject"
         THEN NavigateToProject(Begin(cwd, Fs), envs[e].tempDir, name)
       ELSE IF kind = "navigateToSite"
         THEN NavigateToSite(Begin(cwd, Fs), envs[e].tempDir, name)
       ELSE NavigateToPage(Begin(cwd, Fs), envs[e].tempDir, name, site))
  /\ UNCHANGED <<envs, nTmp, chain>>
  /\ UNCHANGED helpers

NavigateCalls ==
  {<<"navigateToProject", n, "">> : n \in ProjectNames \ {"."}}
    \cup {<<"navigateToSite", s, "">> : s \in SiteOptions \ {""}}
    \cup {<<"navigateToPage", pg, s>> : pg \in PageNames, s \in SiteOptions}

\* one test process with one environment: the life of the sandbox
Next ==
  \/ Setup(1)
  \/ \E rmFails \in BOOLEAN : Cleanup(1, rmFails)
  \/ \E c \in LifecycleCalls : \E o \in ToolOutcomes(CallArgs(c)) :
       /\ envs[1].tempDir # NullDir
       /\ Fluent(1, c, o)
  \/ \E rel \in CdArgs : CdStep(1, rel)
  \/ \E n \in NavigateCalls : Navigate(1, n[1], n[2], n[3])

Spec == Init /\ [][Next]_vars

\* one sandbox, set up once: building content in it
NextContent ==
  \/ nTmp = 0 /\ Setup(1)
  \/ \E c \in ContentCalls : \E o \in ToolOutcomes(CallArgs(c)) :
       /\ envs[1].tempDir # NullDir
       /\ Fluent(1, c, o)
  \/ \E argv \in DirectArgs : \E o \in ToolOutcomes(argv) :
       /\ envs[1].tempDir # NullDir
       /\ RunTool(1, argv, o)

SpecContent == Init /\ [][NextContent]_vars

\* one sandbox, set up once: a page with sections placed under a parent
NestedChildren == {"web", "mobile"}

NestedCalls ==
  {Call("addPage", "about", "", NoOptions),
   Call("addSection", "tabs", "", [NoOptions EXCEPT !.page = "about"])}
    \cup {Call("addSection", n, "",
                [NoOptions EXCEPT !.page = "about", !.position = pos])
            : n \in NestedChildren, pos \in Positions \ {""}}

NextNested ==
  \/ nTmp = 0 /\ Setup(1)
  \/ \E c \in NestedCalls : \E o \in ToolOutcomes(CallArgs(c)) :
       /\ envs[1].tempDir # NullDir
       /\ Len(SectionsOf(Fs, envs[1].tempDir
                               \o <<"pages", "about", "page.yml">>))
            < MaxSections
       /\ Fluent(1, c, o)

SpecNested == Init /\ [][NextNested]_vars

\* one sandbox, set up once: the content of a section, per site and locale
SetSectionCalls ==
  {Call("setSection", n, b,
        [NoOptions EXCEPT !.page = pg, !.site = s, !.locale = l])
     : n \in SectionNames, b \in Bodies, pg \in PageNames,
       s \in SiteOptions, l \in LocaleOptions}

AddLocaleCalls ==
  {Call("addLocale", "fr", "", [NoOptions EXCEPT !.site = s])
     : s \in SiteOptions}

NextSetSection ==
  \/ nTmp = 0 /\ Setup(1)
  \/ \E c \in SetSectionCalls : \E o \in ToolOutcomes(CallArgs(c)) :
       /\ envs[1].tempDir # NullDir
       /\ Fluent(1, c, o)
  \/ \E c \in AddLocaleCalls : \E o \in ToolOutcomes(CallArgs(c)) :
       /\ envs[1].tempDir # NullDir
       /\ Fluent(1, c, o)

SpecSetSection == Init /\ [][NextSetSection]_vars

\* two environments in one test process
TwoCalls ==
  {Call("initProject", "p", "", [NoOptions EXCEPT !.singleSite = TRUE])}

NextTwo ==
  \/ \E e \in Envs : Construct(e)
  \/ \E e \in Envs : Setup(e)
  \/ \E e \in Envs : \E rmFails \in BOOLEAN : Cleanup(e, rmFails)
  \/ \E e \in Envs : \E c \in TwoCalls : \E o \in ToolOutcomes(CallArgs(c)) :
       /\ envs[e].tempDir # NullDir
       /\ Fluent(e, c, o)
  \/ \E e \in Envs : CdStep(e, <<"p">>)

SpecTwo == Init /\ [][NextTwo]_vars

----------------------------------------------------------------------------
(* Dotted-path resolution on the documents a page.yml may hold *)

Documents ==
  {Null, Undefined, Map(NoKeys), Str("hero"), Num(3),
   List(<<Str("hero"), Str("cta")>>),
   Map([k \in {"sections"} |-> List(<<>>)]),
   Map([k \in {"sections"} |-> List(<<Str("hero")>>)]),
   Map([k \in {"sections"} |->
          List(<<Str("hero"),
                 Map([j \in {"tabs"} |-> List(<<Str("web")>>)])>>)]),
   Map([k \in {"sections"} |-> Str("hero")]),
   Map([k \in {"a"} |-> Null]),
   Map([k \in {"a"} |-> Map([j \in {"b"} |-> Str("x")])])}

Expectations ==
  {Undefined, Num(0), Num(1), Num(2), Str("hero"), List(<<Str("hero")>>)}

\* getNestedProperty(doc, property) compared with expected
Resolve(doc, property, expected) ==
  /\ ~thrown
  /\ lookup' = PropertyCheck(doc, property, expected)
  /\ thrown' = (PropertyCheck(doc, property, expected).status # "ok")
  /\ UNCHANGED <<cwd, dirs, files, envs, nTmp, calls, res, last, chain,
                 batch, checks, builder, perf,
                 got>>

\* a test body is left by a throw; the next one starts afresh
NextTest ==
  /\ thrown /\ lookup.made
  /\ thrown' = FALSE
  /\ lookup' = NoLookup
  /\ UNCHANGED <<cwd, dirs, files, envs, nTmp, calls, res, last, chain,
                 batch, checks, builder, perf,
                 got>>

NextLookup ==
  \/ \E doc \in Documents, property \in Properties,
        expected \in Expectations : Resolve(doc, property, expected)
  \/ NextTest

SpecLookup == Init /\ [][NextLookup]_vars

----------------------------------------------------------------------------
(* BatchOperations: env.batch() makes the object, addPage / addSection /   *)
(* setSection declare records, execute() runs them on the sandbox.         *)

\* the record a declaration method builds: { type, name, options, content? }
Record(type, name, content, options) ==
  [type |-> type, name |-> name, content |-> content, options |-> options]

\* the declarations of the tests
BatchRecords ==
  {Record("addPage", "about", "", NoOptions),
   Record("addSection", "hero", "", [NoOptions EXCEPT !.page = "about"]),
   Record("setSection", "hero", "bio", [NoOptions EXCEPT !.page = "about"])}

\* Push that puts the record in front
Push_Front(ops, r) == <<r>> \o ops

\* this.operations.push(r)
Push(ops, r) == Append(ops, r)

\* env.batch(): new BatchOperations(this)
NewBatch(e) ==
  /\ envs[e].made /\ ~thrown /\ ~batch.made
  /\ batch' = [NoBatch EXCEPT !.made = TRUE, !.env = e, !.state = "declared",
                              !.value = "Batch"]
  /\ last' = Step("batch", e, Begin(cwd, Fs), FALSE)
  /\ calls' = <<>>
  /\ UNCHANGED <<cwd, dirs, files, envs, nTmp, res, thrown, chain,
                 checks, builder, lookup, perf,
                 got>>

\* batch.addPage(name, options), batch.addSection(name, options),
\* batch.setSection(name, content, options), before execute()
Declare(r) ==
  /\ batch.made /\ ~thrown /\ batch.state = "declared"
  /\ Len(batch.operations) < MaxBatch
  /\ batch' = [batch EXCEPT !.operations = Push(@, r), !.value = "Batch"]
  /\ last' = Step("batch." \o r.type, batch.env, Begin(cwd, Fs), FALSE)
  /\ calls' = <<>>
  /\ UNCHANGED <<cwd, dirs, files, envs, nTmp, res, thrown, chain,
                 checks, builder, lookup, perf,
                 got>>

\* Dispatch that hands setSection the options in the place of the content
Dispatch_NoContent(r) == Call(r.type, r.name, "", r.options)

\* the switch of execute(): the call on the sandbox a record stands for
Dispatch(r) ==
  IF r.type = "addPage" THEN Call("addPage", r.name, "", r.options)
  ELSE IF r.type = "addSection" THEN Call("addSection", r.name, "", r.options)
  ELSE Call("setSection", r.name, r.content, r.options)

\* execute(): the call; the loop starts at the first record of
\* this.operations
ExecuteStart ==
  /\ batch.made /\ ~thrown /\ batch.state \in {"declared", "returned"}
  /\ batch.runs < MaxExecutes
  /\ batch' = [batch EXCEPT !.state = "running", !.pos = 0, !.runs = @ + 1,
                            !.value = "Promise"]
  /\ last' = Step("execute", batch.env, Begin(cwd, Fs), FALSE)
  /\ calls' = <<>>
  /\ UNCHANGED <<cwd, dirs, files, envs, nTmp, res, thrown, chain,
                 checks, builder, lookup, perf,
                 got>>

\* AfterDispatch under a loop that catches what an operation throws
AfterDispatch_KeepsGoing(b, c, W) ==
  [b EXCEPT !.dispatched = Append(@, c), !.pos = @ + 1]

\* the batch after `await this.env[...]`: a throw of the operation leaves
\* execute(), otherwise the loop goes on to the next record
AfterDispatch(b, c, W) ==
  IF W.status = "ok"
  THEN [b EXCEPT !.dispatched = Append(@, c), !.pos = @ + 1]
  ELSE [b EXCEPT !.dispatched = Append(@, c), !.state = "raised",
                 !.value = "Thrown"]

Dispatched(c, W) ==
  /\ cwd' = W.cwd
  /\ dirs' = W.F.dirs
  /\ files' = W.F.files
  /\ calls' = W.calls
  /\ res' = W.res
  /\ last' = Step("execute", batch.env, W, FALSE)
  /\ batch' = AfterDispatch(batch, c, W)
  /\ thrown' = (AfterDispatch(batch, c, W).state = "raised")

\* one turn of the loop of execute(): the next record, awaited to its end
ExecuteStep(o) ==
  /\ batch.state = "running" /\ batch.pos < Len(batch.operations)
  /\ Dispatched(Dispatch(batch.operations[batch.pos + 1]),
                DoCall(Begin(cwd, Fs), envs[batch.env].tempDir,
                       Dispatch(batch.operations[batch.pos + 1]), o))
  /\ UNCHANGED <<envs, nTmp, chain, checks, builder, lookup, perf,
                 got>>

\* return this.env
ExecuteReturn ==
  /\ batch.state = "running" /\ batch.pos = Len(batch.operations)
  /\ batch' = [batch EXCEPT !.state = "returned", !.value = "Sandbox"]
  /\ last' = Step("execute", batch.env, Begin(cwd, Fs), FALSE)
  /\ calls' = <<>>
  /\ UNCHANGED <<cwd, dirs, files, envs, nTmp, res, thrown, chain,
                 checks, builder, lookup, perf,
                 got>>

NextBatch ==
  \/ nTmp = 0 /\ Setup(1)
  \/ envs[1].tempDir # NullDir /\ NewBatch(1)
  \/ \E r \in BatchRecords : Declare(r)
  \/ ExecuteStart
  \/ /\ batch.state = "running" /\ batch.pos < Len(batch.operations)
     /\ \E o \in ToolOutcomes(
                  CallArgs(Dispatch(batch.operations[batch.pos + 1]))) :
          ExecuteStep(o)
  \/ ExecuteReturn

SpecBatch == Init /\ [][NextBatch]_vars

----------------------------------------------------------------------------
(* AssertionChain: env.assert() makes the object, fileExists /             *)
(* fileContains / yamlProperty / directoryStructure declare checks,        *)
(* verify() runs them.                                                     *)

\* the closure a declaration method builds, by what it captures
Closure(kind, path, content, property, value, structure, message) ==
  [kind |-> kind, path |-> path, content |-> content, property |-> property,
   value |-> value, structure |-> structure, message |-> message]

AboutYml == <<"pages", "about", "page.yml">>
HeroMd == <<"pages", "about", "hero.md">>

\* the declarations of the tests
Closures ==
  {Closure("fileExists", AboutYml, EmptyText, "", Undefined, {}, ""),
   Closure("fileExists", HeroMd, EmptyText, "", Undefined, {}, "no hero"),
   Closure("fileContains", HeroMd, BodyText("bio"), "", Undefined, {}, ""),
   Closure("yamlProperty", AboutYml, EmptyText, "sections.length", Num(1),
           {}, ""),
   Closure("directoryStructure", <<>>, EmptyText, "", Undefined,
           {[path |-> <<"pages", "about">>, kind |-> "directory"],
            [path |-> HeroMd, kind |-> "file"]}, "")}

\* await assertion(): the call the closure holds
RunCheck(W, tempDir, a) ==
  IF a.kind = "fileExists"
    THEN ExpectFileExistsWith(W, tempDir, a.path, a.message)
  ELSE IF a.kind = "fileContains"
    THEN ExpectFileContainsWith(W, tempDir, a.path, a.content, a.message)
  ELSE IF a.kind = "yamlProperty"
    THEN ExpectYamlProperty(W, tempDir, a.path, a.property, a.value,
                            a.message)
  ELSE ExpectDirectoryStructure(W, tempDir, a.structure)

\* env.assert(): new AssertionChain(this)
NewChecks(e) ==
  /\ envs[e].made /\ ~thrown /\ ~checks.made
  /\ checks' = [NoChecks EXCEPT !.made = TRUE, !.env = e,
                                !.state = "declared", !.value = "Chain"]
  /\ last' = Step("assert", e, Begin(cwd, Fs), FALSE)
  /\ calls' = <<>>
  /\ UNCHANGED <<cwd, dirs, files, envs, nTmp, res, thrown, chain,
                 batch, builder, lookup, perf,
                 got>>

\* Enqueue that runs the check at once
Enqueue_Eager(q, a, W, tempDir) ==
  [queue |-> Append(q, a), W |-> RunCheck(W, tempDir, a)]

\* this.assertions.push(async () => {...}): the closure is made, not called
Enqueue(q, a, W, tempDir) == [queue |-> Append(q, a), W |-> W]

Declared(a, d) ==
  /\ checks' = [checks EXCEPT !.assertions = d.queue, !.value = "Chain"]
  /\ last' = Step("assert." \o a.kind, checks.env, d.W, FALSE)
  /\ thrown' = (d.W.status # "ok")
  /\ cwd' = d.W.cwd
  /\ dirs' = d.W.F.dirs
  /\ files' = d.W.F.files
  /\ calls' = d.W.calls

\* chain.fileExists(...), .fileContains(...), .yamlProperty(...),
\* .directoryStructure(...), before verify()
DeclareCheck(a) ==
  /\ checks.made /\ ~thrown /\ checks.state = "declared"
  /\ Len(checks.assertions) < MaxChecks
  /\ Declared(a, Enqueue(checks.assertions, a, Begin(cwd, Fs),
                         envs[checks.env].tempDir))
  /\ UNCHANGED <<envs, nTmp, res, chain, batch, builder, lookup, perf,
                 got>>

\* verify(): the call; the loop starts at the first closure
VerifyStart ==
  /\ checks.made /\ ~thrown /\ checks.state = "declared"
  /\ checks' = [checks EXCEPT !.state = "running", !.pos = 0,
                              !.value = "Promise"]
  /\ last' = Step("verify", checks.env, Begin(cwd, Fs), FALSE)
  /\ calls' = <<>>
  /\ UNCHANGED <<cwd, dirs, files, envs, nTmp, res, thrown, chain,
                 batch, builder, lookup, perf,
                 got>>

\* AfterCheck under a loop that goes on after a failed check
AfterCheck_KeepsGoing(k, W) ==
  [checks EXCEPT !.evaluated = Append(@, k), !.pos = @ + 1]

\* the chain after `await assertion()`: a failed expect leaves verify()
AfterCheck(k, W) ==
  IF W.status = "ok"
  THEN [checks EXCEPT !.evaluated = Append(@, k), !.pos = @ + 1]
  ELSE [checks EXCEPT !.evaluated = Append(@, k), !.state = "raised",
                      !.value = "Thrown"]

Checked(k, W) ==
  /\ checks' = AfterCheck(k, W)
  /\ thrown' = (AfterCheck(k, W).state = "raised")
  /\ last' = Step("verify", checks.env, W, FALSE)
  /\ cwd' = W.cwd
  /\ dirs' = W.F.dirs
  /\ files' = W.F.files
  /\ calls' = W.calls

\* one turn of the loop of verify()
VerifyStep ==
  /\ checks.state = "running" /\ checks.pos < Len(checks.assertions)
  /\ Checked(checks.pos + 1,
             RunCheck(Begin(cwd, Fs), envs[checks.env].tempDir,
                      checks.assertions[checks.pos + 1]))
  /\ UNCHANGED <<envs, nTmp, res, chain, batch, builder, lookup, perf,
                 got>>

\* the loop of verify() has come to its end
VerifyReturn ==
  /\ checks.state = "running" /\ checks.pos = Len(checks.assertions)
  /\ checks' = [checks EXCEPT !.state = "returned", !.value = "undefined"]
  /\ last' = Step("verify", checks.env, Begin(cwd, Fs), FALSE)
  /\ calls' = <<>>
  /\ UNCHANGED <<cwd, dirs, files, envs, nTmp, res, thrown, chain,
                 batch, builder, lookup, perf,
                 got>>

\* the operations whose effects the checks look at
CheckedCalls == {Dispatch(r) : r \in BatchRecords}

NextChecks ==
  \/ nTmp = 0 /\ Setup(1)
  \/ envs[1].tempDir # NullDir /\ NewChecks(1)
  \/ \E a \in Closures : DeclareCheck(a)
  \/ \E c \in CheckedCalls : \E o \in ToolOutcomes(CallArgs(c)) :
       /\ envs[1].tempDir # NullDir /\ checks.state # "running"
       /\ Fluent(1, c, o)
  \/ VerifyStart
  \/ VerifyStep
  \/ VerifyReturn

SpecChecks == Init /\ [][NextChecks]_vars

----------------------------------------------------------------------------
(* ContentBuilder: front matter and body blocks are declared, build()      *)
(* renders them into one string.                                           *)

RECURSIVE Repeat(_, _)
\* s.repeat(n)
Repeat(str, n) == IF n <= 0 THEN "" ELSE str \o Repeat(str, n - 1)

RECURSIVE Join(_, _)
\* strs.join(sep)
Join(strs, sep) ==
  IF strs = <<>> THEN ""
  ELSE IF Len(strs) = 1 THEN strs[1]
  ELSE strs[1] \o sep \o Join(Tail(strs), sep)

\* this.frontMatter[key] = value
SetKey(fm, key, value) ==
  IF \E i \in 1..Len(fm) : fm[i].key = key
  THEN [i \in 1..Len(fm) |->
          IF fm[i].key = key THEN [key |-> key, value |-> value] ELSE fm[i]]
  ELSE Append(fm, [key |-> key, value |-> value])

RECURSIVE SortedIndexKeys(_, _)
\* the entries whose key is an array index, in ascending order of the index
SortedIndexKeys(fm, n) ==
  IF n > 3 THEN <<>>
  ELSE SelectSeq(fm, LAMBDA x : IndexOf(x.key) = n)
         \o SortedIndexKeys(fm, n + 1)

\* Object.entries(this.frontMatter): keys that are array indices come
\* first, in ascending order, the others follow in the order they were set
Entries(fm) ==
  SortedIndexKeys(fm, 1) \o SelectSeq(fm, LAMBDA x : IndexOf(x.key) = 0)

\* Build that renders the front-matter block even when there are no keys
Build_AlwaysDelimited(fm, body) ==
  "---\n"
    \o Join([i \in 1..Len(Entries(fm)) |->
               Entries(fm)[i].key \o ": " \o Entries(fm)[i].value], "\n")
    \o "\n---\n\n" \o Join(body, "\n\n")

\* build()
Build(fm, body) ==
  (IF Len(fm) > 0
   THEN "---\n"
          \o Join([i \in 1..Len(Entries(fm)) |->
                     Entries(fm)[i].key \o ": " \o Entries(fm)[i].value],
                  "\n")
          \o "\n---\n\n"
   ELSE "")
    \o Join(body, "\n\n")

\* the arguments of the tests
ComponentNames == {"Hero"}
ParamKeys == {"theme", "component", "1"}
ParamValues == {"dark"}
BlockTexts == {"Hi", "Yo"}
Levels == {1, 2}
ItemLists == {<<>>, <<"a">>, <<"a", "b">>}
Attributes == {<<>>, <<"target", "rel">>}

\* env.buildContent(): new ContentBuilder()
NewBuilder ==
  /\ ~thrown /\ ~builder.made
  /\ builder' = [NoBuilder EXCEPT !.made = TRUE]
  /\ UNCHANGED <<cwd, dirs, files, envs, nTmp, calls, res, last, thrown,
                 chain, batch, checks, lookup, perf,
                 got>>

\* a declaration on the builder: the front matter and the body after it
Declaring(fm, body) ==
  /\ builder.made /\ ~thrown
  /\ Len(body) <= MaxBlocks
  /\ builder' = [builder EXCEPT !.frontMatter = fm, !.body = body,
                                !.built = FALSE]
  /\ UNCHANGED <<cwd, dirs, files, envs, nTmp, calls, res, last, thrown,
                 chain, batch, checks, lookup, perf,
                 got>>

Component(name) ==
  Declaring(SetKey(builder.frontMatter, "component", name), builder.body)

Param(key, value) ==
  Declaring(SetKey(builder.frontMatter, key, value), builder.body)

Title(text) ==
  Declaring(builder.frontMatter, Append(builder.body, "# " \o text))

Paragraph(text) ==
  Declaring(builder.frontMatter, Append(builder.body, text))

Heading(level, text) ==
  Declaring(builder.frontMatter,
            Append(builder.body, Repeat("#", level) \o " " \o text))

\* items.forEach((item) => this.body.push(`- ${item}`))
ListItems(items) ==
  Declaring(builder.frontMatter,
            builder.body \o [i \in 1..Len(items) |-> "- " \o items[i]])

Image(src, alt) ==
  Declaring(builder.frontMatter,
            Append(builder.body, "![" \o alt \o "](" \o src \o ")"))

Link(text, url, attributes) ==
  Declaring(builder.frontMatter,
            Append(builder.body,
                   "[" \o text \o "](" \o url \o ")"
                     \o (IF Len(attributes) > 0
                         THEN "{" \o Join(attributes, " ") \o "}" ELSE "")))

\* const content = builder.build()
BuildContent ==
  /\ builder.made /\ ~thrown
  /\ builder' = [builder EXCEPT
                   !.output = Build(builder.frontMatter, builder.body),
                   !.built = TRUE]
  /\ UNCHANGED <<cwd, dirs, files, envs, nTmp, calls, res, last, thrown,
                 chain, batch, checks, lookup, perf,
                 got>>

NextBuilder ==
  \/ NewBuilder
  \/ \E name \in ComponentNames : Component(name)
  \/ \E key \in ParamKeys, value \in ParamValues : Param(key, value)
  \/ \E text \in BlockTexts : Title(text)
  \/ \E text \in BlockTexts : Paragraph(text)
  \/ \E level \in Levels, text \in BlockTexts : Heading(level, text)
  \/ \E items \in ItemLists : ListItems(items)
  \/ Image("i.png", "alt")
  \/ \E attributes \in Attributes : Link("Hi", "u", attributes)
  \/ BuildContent

SpecBuilder == Init /\ [][NextBuilder]_vars

----------------------------------------------------------------------------
(* PerformanceHelper: env.performance() makes the object, timeOperation    *)
(* runs an operation between two readings of the clock.                    *)

\* the names and limits of the tests; Date.now() - start after the operation
MetricNames == {"create", "bulk-pages"}
Durations == {1, 7}
Limits == {5}

\* the operations the tests time
TimedCalls ==
  {Call("addPage", "about", "", NoOptions),
   Call("addSection", "hero", "", [NoOptions EXCEPT !.page = "about"])}

\* env.performance(): new PerformanceHelper(this)
NewPerf(e) ==
  /\ envs[e].made /\ ~thrown /\ ~perf.made
  /\ perf' = [NoPerf EXCEPT !.made = TRUE, !.env = e]
  /\ last' = Step("performance", e, Begin(cwd, Fs), FALSE)
  /\ calls' = <<>>
  /\ UNCHANGED <<cwd, dirs, files, envs, nTmp, res, thrown, chain,
                 batch, checks, builder, lookup,
                 got>>

\* this.metrics[name] = duration
SetMetric(metrics, name, duration) ==
  [n \in DOMAIN metrics \cup {name} |->
     IF n = name THEN duration ELSE metrics[n]]

\* the metrics after `const result = await operation()` and what follows it:
\* a throw of the operation leaves timeOperation at the await
Measured(metrics, name, duration, W) ==
  IF W.status = "ok" THEN SetMetric(metrics, name, duration) ELSE metrics

Timed(name, duration, W) ==
  /\ perf' = [perf EXCEPT !.metrics = Measured(@, name, duration, W),
                          !.timed = name, !.elapsed = duration]
  /\ cwd' = W.cwd
  /\ dirs' = W.F.dirs
  /\ files' = W.F.files
  /\ calls' = W.calls
  /\ res' = W.res
  /\ last' = Step("timeOperation", perf.env, W, FALSE)
  /\ thrown' = (W.status # "ok")

\* await perf.timeOperation(name, async () => { await env.<operation> })
TimeOperation(name, c, o, duration) ==
  /\ perf.made /\ ~thrown
  /\ Timed(name, duration,
           DoCall(Begin(cwd, Fs), envs[perf.env].tempDir, c, o))
  /\ UNCHANGED <<envs, nTmp, chain, batch, checks, builder, lookup,
                 got>>

\* perf.expectOperationFasterThan(name, maxMs):
\* expect(this.metrics[name]).toBeLessThan(maxMs); undefined is not a number
ExpectOperationFasterThan(name, maxMs) ==
  /\ perf.made /\ ~thrown
  /\ last' = Step("expectOperationFasterThan", perf.env,
                  IF name \in DOMAIN perf.metrics /\ perf.metrics[name] < maxMs
                  THEN Begin(cwd, Fs)
                  ELSE Throw(Begin(cwd, Fs), "assertFailed", "toBeLessThan"),
                  FALSE)
  /\ thrown' = ~(name \in DOMAIN perf.metrics /\ perf.metrics[name] < maxMs)
  /\ calls' = <<>>
  /\ UNCHANGED <<cwd, dirs, files, envs, nTmp, res, chain,
                 batch, checks, builder, lookup, perf,
                 got>>

NextPerf ==
  \/ nTmp = 0 /\ Setup(1)
  \/ envs[1].tempDir # NullDir /\ NewPerf(1)
  \/ \E name \in MetricNames, c \in TimedCalls, duration \in Durations :
       \E o \in ToolOutcomes(CallArgs(c)) :
         TimeOperation(name, c, o, duration)
  \/ \E name \in MetricNames, maxMs \in Limits :
       ExpectOperationFasterThan(name, maxMs)

SpecPerf == Init /\ [][NextPerf]_vars

----------------------------------------------------------------------------
(* The accessors of the sandbox, called from a test body *)

Accessors == {"fileExists", "readFile", "readYaml", "getDirectoryStructure"}

\* the accessors and the assertion built on fileExists
AccessOps == Accessors \cup {"expectFileExists"}

AccessPaths ==
  {<<"package.json">>, <<"p", "package.json">>, <<"pages">>,
   <<"pages", "about", "page.yml">>, <<"hero.md">>}

Accessed(op, e, rel, r) ==
  /\ got' = [op |-> op, path |-> rel, value |-> r.value]
  /\ last' = Step(op, e, r.W, FALSE)
  /\ thrown' = (r.W.status # "ok")
  /\ cwd' = r.W.cwd
  /\ dirs' = r.W.F.dirs
  /\ files' = r.W.F.files
  /\ calls' = r.W.calls

\* await env.fileExists(rel), env.readFile(rel), env.readYaml(rel),
\* env.getDirectoryStructure(rel), env.expectFileExists(rel)
Access(e, op, rel) ==
  /\ envs[e].made /\ ~thrown
  /\ Accessed(op, e, rel,
        IF op = "fileExists"
          THEN FileExists(Begin(cwd, Fs), envs[e].tempDir, rel)
        ELSE IF op = "readFile"
          THEN ReadFile(Begin(cwd, Fs), envs[e].tempDir, rel)
        ELSE IF op = "readYaml"
          THEN ReadYaml(Begin(cwd, Fs), envs[e].tempDir, rel)
        ELSE IF op = "expectFileExists"
          THEN [W |-> ExpectFileExists(Begin(cwd, Fs), envs[e].tempDir, rel),
                value |-> Undefined]
        ELSE GetDirectoryStructure(Begin(cwd, Fs), envs[e].tempDir, rel))
  /\ UNCHANGED <<envs, nTmp, res, chain, batch, checks, builder, lookup,
                 perf>>

\* a test body is left by a throw; the next one goes on in the same sandbox
Resume ==
  /\ thrown /\ last.op \in AccessOps \cup {"expectStandardProjectStructure"}
  /\ thrown' = FALSE
  /\ last' = Step("resume", last.env, Begin(cwd, Fs), FALSE)
  /\ calls' = <<>>
  /\ UNCHANGED <<cwd, dirs, files, envs, nTmp, res, chain, batch, checks,
                 builder, lookup, perf, got>>

AccessCalls ==
  {Call("initProject", "p", "", [NoOptions EXCEPT !.singleSite = TRUE]),
   Call("addPage", "about", "", NoOptions),
   Call("addSection", "hero", "", [NoOptions EXCEPT !.page = "about"])}

NextAccess ==
  \/ nTmp = 0 /\ Setup(1)
  \/ \E c \in AccessCalls : \E o \in ToolOutcomes(CallArgs(c)) :
       /\ envs[1].tempDir # NullDir
       /\ Fluent(1, c, o)
  \/ \E rel \in CdArgs : CdStep(1, rel)
  \/ \E n \in NavigateCalls : Navigate(1, n[1], n[2], n[3])
  \/ \E op \in AccessOps, rel \in AccessPaths :
       envs[1].tempDir # NullDir /\ Access(1, op, rel)
  \/ Resume

SpecAccess == Init /\ [][NextAccess]_vars

----------------------------------------------------------------------------
(* The layout of the project in the sandbox root *)

ProjectTypes == {"minimal", "single-site", "workspace"}

LayoutCalls ==
  {Call("initProject", ".", "", o)
     : o \in {NoOptions, [NoOptions EXCEPT !.singleSite = TRUE],
              [NoOptions EXCEPT !.site = "main"]}}
    \cup {Call("addPage", "about", "", NoOptions)}

\* await env.expectStandardProjectStructure(type)
ExpectStructure(e, type) ==
  /\ envs[e].made /\ ~thrown
  /\ Accessed("expectStandardProjectStructure", e, <<type>>,
        [W |-> ExpectStandardProjectStructure(Begin(cwd, Fs),
                                              envs[e].tempDir, type),
         value |-> Undefined])
  /\ UNCHANGED <<envs, nTmp, res, chain, batch, checks, builder, lookup,
                 perf>>

NextLayout ==
  \/ Setup(1)
  \/ Cleanup(1, FALSE)
  \/ \E c \in LayoutCalls : \E o \in ToolOutcomes(CallArgs(c)) :
       /\ envs[1].tempDir # NullDir
       /\ Fluent(1, c, o)
  \/ \E type \in ProjectTypes :
       envs[1].tempDir # NullDir /\ ExpectStructure(1, type)
  \/ Resume

SpecLayout == Init /\ [][NextLayout]_vars

----------------------------------------------------------------------------
(* A statement of a test body.  The project is set up by                   *)
(*   initProject(n, {singleSite: true}), addPage(p),                       *)
(*   addSection(s, {page: p}), setSection(s, c, {page: p})                 *)
(* written either as one fluent expression                                 *)
(*   await env.initProject(...).addPage(...).addSection(...).setSection(...) *)
(* or as one awaited call after the other.                                 *)

WfProjects == {"p", "portfolio", "."}
WfPages == {"about", "work", "contact"}
WfSections == {"hero", "skills"}

Workflow(n, pg, sec, body) ==
  <<Call("initProject", n, "", [NoOptions EXCEPT !.singleSite = TRUE]),
    Call("addPage", pg, "", NoOptions),
    Call("addSection", sec, "", [NoOptions EXCEPT !.page = pg]),
    Call("setSection", sec, body, [NoOptions EXCEPT !.page = pg])>>

Workflows ==
  {Workflow(n, pg, sec, body) :
     n \in WfProjects, pg \in WfPages, sec \in WfSections, body \in Bodies}

\* what a value answers to: the methods of TestEnvironment are found on the
\* sandbox; the value an async method returns is a Promise, which has none
\* of them
HasMethod(recv, m) == recv = "Sandbox" /\ m \in FluentOps

\* the value of a call of an async method
AsyncValue == "Promise"

\* recv.m(...): the next call of the fluent expression.  An async method
\* runs up to its first await, where the subprocess has been started, and
\* hands back its value; the rest of its body runs when the subprocess ends.
ChainCall ==
  /\ chain.kind = "fluent" /\ chain.todo # <<>>
  /\ chain.recv \in {"Sandbox", "Promise"}
  /\ envs[1].tempDir # NullDir /\ ~thrown
  /\ LET c == Head(chain.todo) IN
       IF HasMethod(chain.recv, c.op)
       THEN /\ chain' = [chain EXCEPT
                 !.todo = Tail(@), !.recv = AsyncValue,
                 !.inflight = Append(@, c),
                 !.invoked = Append(@, CallArgs(c)),
                 !.overlap = @ \/ chain.inflight # <<>>]
            /\ thrown' = thrown
       ELSE \* TypeError: recv.m is not a function
            /\ chain' = [chain EXCEPT !.recv = "TypeError"]
            /\ thrown' = TRUE
  /\ UNCHANGED <<cwd, dirs, files, envs, nTmp, calls, res, last>>
  /\ UNCHANGED helpers

\* the subprocess of a started method ends and the method's body runs on
Settled(W) ==
  /\ cwd' = W.cwd
  /\ dirs' = W.F.dirs
  /\ files' = W.F.files
  /\ calls' = W.calls
  /\ res' = W.res
  /\ last' = Step(Head(chain.inflight).op, 1, W, FALSE)
  /\ chain' = [chain EXCEPT
       !.inflight = Tail(@),
       !.recv = IF W.status = "ok" THEN @
                ELSE IF @ = "Promise" THEN "Rejected" ELSE @]

ChainSettle(o) ==
  /\ chain.kind = "fluent" /\ chain.inflight # <<>>
  /\ Settled(DoCall(Begin(cwd, Fs), envs[1].tempDir, Head(chain.inflight), o))
  /\ UNCHANGED <<envs, nTmp, thrown>>
  /\ UNCHANGED helpers

\* await <expression>: the value of a settled promise is what the method
\* returned, the sandbox; a rejected one throws
ChainAwait ==
  /\ chain.kind = "fluent" /\ chain.todo = <<>> /\ chain.inflight = <<>>
  /\ chain.recv \in {"Promise", "Rejected"}
  /\ chain' = [chain EXCEPT
                 !.recv = IF @ = "Promise" THEN "Sandbox" ELSE "Thrown",
                 !.kind = "done"]
  /\ thrown' = (chain.recv = "Rejected")
  /\ UNCHANGED <<cwd, dirs, files, envs, nTmp, calls, res, last>>
  /\ UNCHANGED helpers

\* env.m1(...).m2(...)... about to be evaluated
FluentStatement(ms) ==
  [NoChain EXCEPT !.kind = "fluent", !.script = ms, !.todo = ms,
                  !.recv = "Sandbox"]

InitChain ==
  /\ Constructed
  /\ chain \in UNION {{FluentStatement(SubSeq(w, 1, k)) : k \in 1..Len(w)}
                         : w \in Workflows}

NextChain ==
  \/ nTmp = 0 /\ Setup(1)
  \/ ChainCall
  \/ /\ chain.inflight # <<>>
     /\ \E o \in ToolOutcomes(CallArgs(Head(chain.inflight))) :
          ChainSettle(o)
  \/ ChainAwait

SpecChain == InitChain /\ [][NextChain]_vars

\* await env.m(...): the next statement of a test body that awaits call
\* after call, run against the tool that does each command as it is meant
AwaitStep ==
  /\ chain.kind = "awaits" /\ chain.todo # <<>>
  /\ envs[1].tempDir # NullDir /\ ~thrown
  /\ LET c == Head(chain.todo) IN
       Commit(c.op, 1,
              DoCall(Begin(cwd, Fs), envs[1].tempDir, c,
                     CorrectOutcome(Fs, SpawnDir(envs[1].tempDir, cwd),
                                    CallArgs(c))))
  /\ chain' = [chain EXCEPT !.todo = Tail(@)]
  /\ UNCHANGED <<envs, nTmp>>
  /\ UNCHANGED helpers

InitAwaits ==
  /\ Constructed
  /\ chain \in {[NoChain EXCEPT !.kind = "awaits", !.script = w, !.todo = w]
                  : w \in Workflows}

NextAwaits ==
  \/ nTmp = 0 /\ Setup(1)
  \/ AwaitStep

SpecAwaits == InitAwaits /\ [][NextAwaits]_vars

----------------------------------------------------------------------------
(* Properties *)

\* the latest step started the tool at least once
ToolCalled == Len(calls) > 0
LastCall == calls[Len(calls)]
LastTempDir == envs[last.env].tempDir

\* the evaluation of the statement has come to its end
ChainEnded == chain.kind = "done" \/ chain.recv = "TypeError"

RECURSIVE ArgsOf(_)
ArgsOf(cs) ==
  IF cs = <<>> THEN <<>> ELSE <<CallArgs(Head(cs))>> \o ArgsOf(Tail(cs))

\* C1: env.initProject(n, o).addPage(p).addSection(s, {page: p})
\* .setSection(s, c, {page: p}) under one await invokes the tool for all four
\* operations, in that order, each one after the previous one has completed,
\* and the awaited value is the sandbox - unless an operation raised because
\* of what the tool did.
C1_FluentChainComposes ==
  (Len(chain.script) = 4 /\ ChainEnded /\ chain.recv # "Thrown") =>
    /\ chain.invoked = ArgsOf(chain.script)
    /\ ~chain.overlap
    /\ chain.recv = "Sandbox"

\* the scenario of spec section 8
Portfolio == Workflow("p", "about", "hero", "about-me")

C3_ToolRunsInActiveDirectory ==
  \A i \in 1..Len(calls) :
    (calls[i].outcome.launched /\ IsPrefix(LastTempDir, calls[i].active))
      => calls[i].dir = calls[i].active

\* C4: runUniweb never raises and always returns a record; success is true
\* exactly when the subprocess was launched and exited with code 0; on a
\* non-zero exit or a launch failure success is false, exitCode is a
\* non-zero exit code and error carries the diagnostic.
C4_RunUniwebNeverRaises ==
  ToolCalled =>
    /\ ~res.raised
    /\ last.op = "runUniweb" => last.status = "ok"
    /\ res.success <=> (LastCall.outcome.launched /\ LastCall.outcome.exit = 0)
    /\ res.success => res.exitCode = 0
    /\ ~res.success =>
         /\ res.exitCode \in 1..255
         /\ LastCall.outcome.exit \in 1..255 =>
              res.exitCode = LastCall.outcome.exit
         /\ res.hasError /\ res.error = LastCall.outcome.message

C4_Witness ==
  /\ last.op = "runUniweb" /\ ToolCalled
  /\ ~LastCall.outcome.launched
  /\ ~res.success /\ res.exitCode = 1

\* the tool's diagnostic: the launch error message, or the message execa
\* builds around the standard error of a failed run
Diagnostic(o) ==
  IF o.launched THEN "Command failed with exit code: " \o o.stderr
  ELSE o.message

\* C5: when the tool invocation of a fluent operation reports failure, the
\* operation raises at once with the tool's diagnostic in its message, has
\* examined no file, initProject has left the working directory alone, and
\* nothing of the same test body runs after it.
C5_FailFast ==
  [][/\ (last'.op \in FluentOps /\ ToolCalled' /\ ~res'.success) =>
          /\ last'.status = "commandFailed"
          /\ last'.msg = Diagnostic(LastCall'.outcome)
          /\ last'.examined = {}
          /\ Len(calls') = 1
          /\ cwd' = cwd
          /\ thrown'
     /\ (last.status = "commandFailed" /\ thrown) =>
          (calls' = <<>> /\ last'.op = "cleanup")
    ]_vars

C5_Witness ==
  /\ last.op = "initProject" /\ last.status = "commandFailed"
  /\ ToolCalled /\ ~LastCall.outcome.launched
  /\ cwd = LastTempDir

\* C6 as claimed: once cleanup() has returned, the working directory is the
\* one that was current at construction and the directory of the latest
\* setup no longer exists.
C6_CleanupRestoresAndDeletes ==
  (last.op = "cleanup" /\ LastTempDir # NullDir) =>
    /\ cwd = envs[last.env].originalCwd
    /\ LastTempDir \notin dirs

\* C6 amended: once cleanup() has returned, the working directory is the one
\* that was current at construction, and the directory of the latest setup
\* no longer exists unless cleanup() gave a warning.
C6_CleanupRestoresAndDeletesUnlessWarned ==
  (last.op = "cleanup" /\ LastTempDir # NullDir) =>
    /\ cwd = envs[last.env].originalCwd
    /\ last.warned \/ LastTempDir \notin dirs

C6_Witness ==
  /\ last.op = "cleanup" /\ LastTempDir # NullDir /\ ~last.warned
  /\ cwd = HomeDir /\ LastTempDir \notin dirs
  /\ nTmp = 2

\* C7: cleanup() never raises: a failure to restore the working directory or
\* to delete the sandbox directory ends as a warning, and with no sandbox
\* set up cleanup() does nothing.
C7_CleanupNeverRaises ==
  [][last'.op = "cleanup" =>
       /\ last'.status = "ok" /\ ~thrown'
       /\ envs[last'.env].tempDir = NullDir =>
            (cwd' = cwd /\ dirs' = dirs /\ files' = files /\ ~last'.warned)
    ]_vars

C7_Witness ==
  /\ last.op = "cleanup" /\ last.status = "ok" /\ last.warned
  /\ envs[last.env].originalCwd \notin dirs
  /\ LastTempDir \in dirs

\* a cleanup() of environment e, called now, would restore the working
\* directory and delete the directory of e
CleanupWorks(e) ==
  envs[e].tempDir # NullDir =>
    /\ CleanupResult(cwd, Fs, envs[e], FALSE).cwd = envs[e].originalCwd
    /\ ~CleanupResult(cwd, Fs, envs[e], FALSE).warned
    /\ envs[e].tempDir \notin CleanupResult(cwd, Fs, envs[e], FALSE).F.dirs

\* C8: two sandboxes never share state: their temporary directories differ,
\* and no operation on one of them changes the other's directory, the
\* working directory the other will restore, or whether the other's later
\* cleanup restores the working directory and deletes its own directory.
C8_SandboxesIsolated ==
  [][\A e \in Envs :
       /\ \A f \in Envs \ {e} :
            (envs'[e].tempDir # NullDir /\ envs'[f].tempDir # NullDir) =>
              envs'[e].tempDir # envs'[f].tempDir
       /\ (envs[e].made /\ last'.env # e) =>
            /\ envs'[e] = envs[e]
            /\ CleanupWorks(e) => CleanupWorks(e)'
    ]_vars

\* C9: whenever addPage returns normally the tool reported success and
\* page.yml exists at pages/<name>/page.yml, or at
\* sites/<site>/pages/<name>/page.yml when a site is given.
PageYml(argv) ==
  (IF FlagValue(argv, "--site") # ""
   THEN <<"sites", FlagValue(argv, "--site")>> ELSE <<>>)
    \o <<"pages", ArgName(argv), "page.yml">>

C9_AddPageVerified ==
  (last.op = "addPage" /\ last.status = "ok") =>
    /\ ToolCalled /\ res.success
    /\ PathExists(Fs, LastTempDir \o PageYml(LastCall.argv))

C9_Witness ==
  /\ last.op = "addPage" /\ last.status = "ok"
  /\ FlagValue(LastCall.argv, "--site") = "main"
  /\ PathExists(Fs, LastTempDir \o <<"sites", "main", "pages", "about",
                                     "page.yml">>)

\* the number of top-level entries of a sections sequence that are the name
RECURSIVE Occurrences(_, _)
Occurrences(secs, n) ==
  IF secs = <<>> THEN 0
  ELSE (IF Head(secs) = Leaf(n) THEN 1 ELSE 0) + Occurrences(Tail(secs), n)

SectionDir(argv) ==
  (IF FlagValue(argv, "--site") # ""
   THEN <<"sites", FlagValue(argv, "--site")>> ELSE <<>>)
    \o <<"pages", FlagValue(argv, "--page")>>

\* C10 as claimed: whenever addSection(section, {page}) returns normally
\* the section's markdown file exists and the manifest's sections contain
\* the section name exactly once.
C10_SectionListedExactlyOnce ==
  (last.op = "addSection" /\ last.status = "ok") =>
    /\ PathExists(Fs, LastTempDir \o SectionDir(LastCall.argv)
                        \o <<ArgName(LastCall.argv) \o ".md">>)
    /\ Occurrences(SectionsOf(Fs, LastTempDir \o SectionDir(LastCall.argv)
                                    \o <<"page.yml">>),
                   ArgName(LastCall.argv)) = 1

\* C10 amended: whenever addSection(section, {page}) returns normally the
\* section's markdown file exists and the manifest's sections contain the
\* section name at least once.
C10_SectionListed ==
  (last.op = "addSection" /\ last.status = "ok") =>
    /\ PathExists(Fs, LastTempDir \o SectionDir(LastCall.argv)
                        \o <<ArgName(LastCall.argv) \o ".md">>)
    /\ Occurrences(SectionsOf(Fs, LastTempDir \o SectionDir(LastCall.argv)
                                    \o <<"page.yml">>),
                   ArgName(LastCall.argv)) >= 1

C10_Witness ==
  /\ last.op = "addSection" /\ last.status = "ok"
  /\ SectionsOf(Fs, LastTempDir \o <<"pages", "about", "page.yml">>)
       = <<Leaf("hero")>>
  /\ PathExists(Fs, LastTempDir \o <<"pages", "about", "hero.md">>)

\* child is in the list of the mapping element of parent
NestedUnder(secs, parent, child) ==
  \E i \in 1..Len(secs) :
    secs[i].nested /\ secs[i].name = parent /\ InSeq(child, secs[i].kids)

\* C11: when the tool has handled addSection(child, {page, position:
\* "under:parent"}) by putting child into the mapping element
\* {parent: [..., child]} of the manifest's sections, and not as a top-level
\* entry, addSection returns normally - for the first child and for every
\* further one.
C11_NestedChildAccepted ==
  (/\ last.op = "addSection" /\ ToolCalled /\ res.success
   /\ UnderParent(FlagValue(LastCall.argv, "--position")) # ""
   /\ PathExists(Fs, LastTempDir \o SectionDir(LastCall.argv)
                       \o <<ArgName(LastCall.argv) \o ".md">>)
   /\ NestedUnder(SectionsOf(Fs, LastTempDir \o SectionDir(LastCall.argv)
                                   \o <<"page.yml">>),
                  UnderParent(FlagValue(LastCall.argv, "--position")),
                  ArgName(LastCall.argv))
   /\ Occurrences(SectionsOf(Fs, LastTempDir \o SectionDir(LastCall.argv)
                                   \o <<"page.yml">>),
                  ArgName(LastCall.argv)) = 0)
    => last.status = "ok"

\* where the content of a section is kept, from the words of the command
SectionFile(argv) ==
  (IF FlagValue(argv, "--locale") # ""
   THEN <<"locales", FlagValue(argv, "--locale")>> ELSE <<>>)
    \o SectionDir(argv) \o <<ArgName(argv) \o ".md">>

\* C12: whenever setSection(name, content, {page, site?, locale?}) returns
\* normally, the file <base>/<page>/<name>.md - under locales/<locale>/ when
\* a locale is given - exists and contains the first line of content, and
\* without a locale no path under locales/ has been examined.
C12_SetSectionVerified ==
  (last.op = "setSection" /\ last.status = "ok") =>
    /\ LastTempDir \o SectionFile(LastCall.argv) \in DOMAIN files
    /\ TextContains(files[LastTempDir \o SectionFile(LastCall.argv)].text,
                    FirstLine(BodyText(FlagValue(LastCall.argv, "--body"))))
    /\ FlagValue(LastCall.argv, "--locale") = "" =>
         \A p \in last.examined : ~IsPrefix(LastTempDir \o <<"locales">>, p)

C12_Witness ==
  /\ last.op = "setSection" /\ last.status = "ok"
  /\ FlagValue(LastCall.argv, "--locale") = "fr"
  /\ FlagValue(LastCall.argv, "--site") = "main"
  /\ FlagValue(LastCall.argv, "--body") = "about-me"
  /\ LastTempDir \o <<"locales", "fr", "sites", "main", "pages", "about",
                       "hero.md">> \in DOMAIN files

\* C13: declaring on a batch is free of effects: each call of addPage,
\* addSection or setSection of BatchOperations appends exactly one record at
\* the end of the queue, starts no tool, reads and writes no file, leaves
\* the earlier records as they were, and returns the batch object.
C13_DeclarationIsPure ==
  [][batch'.operations # batch.operations =>
       /\ Len(batch'.operations) = Len(batch.operations) + 1
       /\ SubSeq(batch'.operations, 1, Len(batch.operations))
            = batch.operations
       /\ last'.op = "batch." \o batch'.operations[Len(batch'.operations)].type
       /\ batch'.operations[Len(batch'.operations)].type
            \in {"addPage", "addSection", "setSection"}
       /\ calls' = <<>> /\ last'.examined = {}
       /\ files' = files /\ dirs' = dirs /\ cwd' = cwd
       /\ batch'.value = "Batch"
    ]_vars

C13_Witness ==
  /\ Len(batch.operations) = 2 /\ last.op = "batch.setSection"
  /\ batch.operations[1].type = "addPage"
  /\ batch.operations[2].type = "setSection"
  /\ batch.value = "Batch"

\* the call on the sandbox that a declared record asks for
ExpectedCall(r) ==
  [op |-> r.type, name |-> r.name, body |-> r.content, opt |-> r.options]

\* the record execute() is at with its n-th dispatch
RecordOf(n) == batch.operations[((n - 1) % Len(batch.operations)) + 1]

\* C14: execute() dispatches every queued record to the sandbox method of
\* its type, in the order of declaration, one after the other, with the
\* declared name, content and options, and returns the sandbox when all have
\* succeeded.
C14_ExecuteInOrder ==
  batch.made =>
    /\ \A i \in 1..Len(batch.dispatched) :
         batch.dispatched[i] = ExpectedCall(RecordOf(i))
    /\ batch.state = "running" =>
         Len(batch.dispatched)
           = (batch.runs - 1) * Len(batch.operations) + batch.pos
    /\ batch.state = "returned" =>
         /\ Len(batch.dispatched) = batch.runs * Len(batch.operations)
         /\ batch.value = "Sandbox" /\ ~thrown
    /\ (last.op = "execute" /\ ToolCalled) =>
         /\ Len(calls) = 1
         /\ calls[1].argv
              = CallArgs(ExpectedCall(RecordOf(Len(batch.dispatched))))

C14_Witness ==
  /\ batch.state = "returned" /\ batch.runs = 1 /\ batch.value = "Sandbox"
  /\ Len(batch.operations) = 3 /\ Len(batch.dispatched) = 3
  /\ batch.operations[1].type = "addPage"
  /\ batch.operations[2].type = "addSection"
  /\ batch.operations[3].type = "setSection"

\* C15: execute() drains the queue: once it has returned, a second
\* execute() on the same batch dispatches nothing, so over the batch's
\* lifetime every declared operation is run exactly once.
C15_ExecuteDrains ==
  (batch.made /\ batch.runs >= 2) =>
    Len(batch.dispatched) = Len(batch.operations)

\* C16: when the k-th record of a batch fails, execute() raises that
\* failure, no record after the k-th is dispatched, and nothing is rolled
\* back: what was in the filesystem before the k-th record is still there.
C16_BatchFailFast ==
  [][/\ (batch.state = "running" /\ last'.op = "execute"
         /\ last'.status # "ok") =>
          /\ thrown' /\ batch'.state = "raised" /\ batch'.value = "Thrown"
          /\ Len(batch'.dispatched) = Len(batch.dispatched) + 1
          /\ dirs \subseteq dirs'
          /\ DOMAIN files \subseteq DOMAIN files'
          /\ ~res'.success => (files' = files /\ dirs' = dirs)
     /\ batch.state = "raised" =>
          (batch'.dispatched = batch.dispatched /\ calls' = <<>>)
    ]_vars

C16_Witness ==
  /\ batch.state = "raised" /\ thrown
  /\ Len(batch.operations) = 3 /\ Len(batch.dispatched) = 2
  /\ batch.operations[1].type = "addPage"
  /\ PathExists(Fs, envs[1].tempDir \o <<"pages", "about", "page.yml">>)

\* the value has a property of that name
HasProperty(v, key) ==
  \/ v.t = "mapping" /\ key \in DOMAIN v.m
  \/ v.t = "sequence" /\ (key = "length" \/ IndexOf(key) \in 1..Len(v.e))
  \/ v.t = "string" /\ (key = "length" \/ IndexOf(key) \in 1..Len(v.s))

\* on the way along the path a key is missing
KeyMissing(doc, keys) ==
  \E k \in 1..Len(keys) :
    /\ \A j \in 1..(k - 1) :
         HasProperty(Reduce(doc, SubSeq(keys, 1, j - 1)), keys[j])
    /\ ~HasProperty(Reduce(doc, SubSeq(keys, 1, k - 1)), keys[k])

\* C19: dotted-path resolution descends one key per segment of the path;
\* for every document, an empty or null one included, a missing
\* intermediate or final key yields undefined, which is then compared with
\* the expectation, and the resolution never raises; "sections.length" on a
\* sequence yields the number of its elements.
C19_ResolutionNeverRaises ==
  lookup.made =>
    /\ ~lookup.raised /\ lookup.value # TypeError
    /\ KeyMissing(lookup.doc, SplitPath(lookup.property)) =>
         lookup.value = Undefined
    /\ lookup.status = "ok" <=> lookup.value = lookup.expected
    /\ lookup.status # "ok" => lookup.status = "assertFailed"
    /\ (/\ lookup.property = "sections.length"
        /\ lookup.doc.t = "mapping"
        /\ "sections" \in DOMAIN lookup.doc.m
        /\ lookup.doc.m["sections"].t = "sequence") =>
         lookup.value = Num(Len(lookup.doc.m["sections"].e))

C19_Witness ==
  /\ lookup.made /\ lookup.doc = Null /\ lookup.property = "sections.length"
  /\ lookup.value = Undefined /\ lookup.expected = Undefined
  /\ lookup.status = "ok"

\* what a declared check asks of the filesystem F of the sandbox at root
CheckHolds(a, F, root) ==
  IF a.kind = "fileExists" THEN PathExists(F, root \o a.path)
  ELSE IF a.kind = "fileContains"
    THEN /\ root \o a.path \in DOMAIN F.files
         /\ TextContains(F.files[root \o a.path].text, a.content)
  ELSE IF a.kind = "yamlProperty"
    THEN /\ root \o a.path \in DOMAIN F.files
         /\ GetNestedProperty(ToValue(F.files[root \o a.path].doc),
                              a.property) = a.value
  ELSE \A x \in a.structure :
         IF x.kind = "file" THEN root \o x.path \in DOMAIN F.files
         ELSE root \o x.path \in F.dirs

\* C17: declaring assertions never evaluates them: fileExists,
\* fileContains, yamlProperty and directoryStructure each enqueue exactly
\* one check and return the chain, without looking at the filesystem and
\* without raising, even when the check would fail; the outcome of a check
\* is that of the filesystem at the time verify() runs it.
C17_DeclarationDefersChecks ==
  [][/\ checks'.assertions # checks.assertions =>
          /\ Len(checks'.assertions) = Len(checks.assertions) + 1
          /\ SubSeq(checks'.assertions, 1, Len(checks.assertions))
               = checks.assertions
          /\ last'.op
               = "assert." \o checks'.assertions[Len(checks'.assertions)].kind
          /\ last'.status = "ok" /\ ~thrown'
          /\ last'.examined = {} /\ calls' = <<>>
          /\ files' = files /\ dirs' = dirs /\ cwd' = cwd
          /\ checks'.value = "Chain"
     /\ (checks.state = "running" /\ checks'.evaluated # checks.evaluated) =>
          (last'.status = "ok"
             <=> CheckHolds(checks.assertions[checks.pos + 1], Fs,
                            envs[checks.env].tempDir))
    ]_vars

C17_Witness ==
  /\ checks.made /\ checks.state = "declared" /\ Len(checks.assertions) = 2
  /\ last.op = "assert.fileContains" /\ last.status = "ok"
  /\ ~CheckHolds(checks.assertions[2], Fs, envs[checks.env].tempDir)

\* C18: verify() evaluates the queued checks in the order of declaration,
\* one after the other, and stops at the first failing one: the failure it
\* raises is that of the earliest-declared failing check, no check declared
\* after it is evaluated, and verify() returns normally exactly when every
\* queued check passes.
C18_VerifyStopsAtFirstFailure ==
  [][/\ (checks.state = "running" /\ checks'.evaluated # checks.evaluated) =>
          /\ checks'.evaluated
               = Append(checks.evaluated, Len(checks.evaluated) + 1)
          /\ \A j \in 1..Len(checks.evaluated) :
               CheckHolds(checks.assertions[j], Fs, envs[checks.env].tempDir)
          /\ IF CheckHolds(checks.assertions[Len(checks.evaluated) + 1], Fs,
                           envs[checks.env].tempDir)
             THEN checks'.state = "running" /\ ~thrown'
                  /\ last'.status = "ok"
             ELSE /\ checks'.state = "raised" /\ thrown'
                  /\ last'.status \in {"assertFailed", "readError"}
                  /\ (/\ checks.assertions[Len(checks.evaluated) + 1].kind
                           = "fileExists"
                      /\ checks.assertions[Len(checks.evaluated) + 1].message
                           # "") =>
                       last'.msg
                         = checks.assertions[Len(checks.evaluated) + 1].message
     /\ (checks.state = "running" /\ checks'.state = "returned") =>
          /\ Len(checks.evaluated) = Len(checks.assertions)
          /\ \A j \in 1..Len(checks.assertions) :
               CheckHolds(checks.assertions[j], Fs, envs[checks.env].tempDir)
          /\ ~thrown'
     /\ checks.state = "raised" => checks'.evaluated = checks.evaluated
    ]_vars

C18_Witness ==
  /\ checks.state = "raised" /\ thrown
  /\ Len(checks.assertions) = 3 /\ checks.evaluated = <<1, 2>>
  /\ CheckHolds(checks.assertions[1], Fs, envs[checks.env].tempDir)
  /\ ~CheckHolds(checks.assertions[2], Fs, envs[checks.env].tempDir)
  /\ ~CheckHolds(checks.assertions[3], Fs, envs[checks.env].tempDir)
  /\ last.msg = "no hero"

RECURSIVE Split(_, _, _)
\* the lines of a text: str.split(sep), cur being the line that is read
Split(str, sep, cur) ==
  IF str = "" THEN <<cur>>
  ELSE IF SubSeq(str, 1, 1) = sep
    THEN <<cur>> \o Split(SubSeq(str, 2, Len(str)), sep, "")
  ELSE Split(SubSeq(str, 2, Len(str)), sep, cur \o SubSeq(str, 1, 1))

\* the blocks with one empty line between two of them
RECURSIVE Interleaved(_)
Interleaved(blocks) ==
  IF blocks = <<>> THEN <<"">>
  ELSE IF Len(blocks) = 1 THEN blocks
  ELSE <<blocks[1], "">> \o Interleaved(Tail(blocks))

\* C20: build() renders, when at least one front-matter key was set, the
\* line "---", one "key: value" line per key, the line "---", one blank
\* line, then the body blocks with exactly one blank line between two of
\* them; when no front-matter key was set, only the body blocks joined the
\* same way, with no delimiter and no leading blank line.
C20_BuildRenders ==
  builder.built =>
    IF builder.frontMatter # <<>>
    THEN /\ Len(Split(builder.output, "\n", ""))
              = Len(builder.frontMatter) + 3 + Len(Interleaved(builder.body))
         /\ Split(builder.output, "\n", "")[1] = "---"
         /\ {Split(builder.output, "\n", "")[i + 1]
               : i \in 1..Len(builder.frontMatter)}
              = {builder.frontMatter[i].key \o ": "
                   \o builder.frontMatter[i].value
                   : i \in 1..Len(builder.frontMatter)}
         /\ Split(builder.output, "\n", "")[Len(builder.frontMatter) + 2]
              = "---"
         /\ Split(builder.output, "\n", "")[Len(builder.frontMatter) + 3] = ""
         /\ SubSeq(Split(builder.output, "\n", ""),
                   Len(builder.frontMatter) + 4,
                   Len(Split(builder.output, "\n", "")))
              = Interleaved(builder.body)
    ELSE Split(builder.output, "\n", "") = Interleaved(builder.body)

C20_Witness ==
  /\ builder.built
  /\ Len(builder.frontMatter) = 2 /\ Len(builder.body) = 2
  /\ builder.output = "---\ncomponent: Hero\ntheme: dark\n---\n\n# Hi\n\nYo"

\* C21: front matter keeps the order of declaration, the last write
\* winning: for every sequence of component(...) and param(key, value)
\* calls, build() lists each distinct key once, in the order in which the
\* keys were first declared, each with the value of the last call that set
\* it.
C21_FrontMatterInDeclarationOrder ==
  (builder.built /\ builder.frontMatter # <<>>) =>
    SubSeq(Split(builder.output, "\n", ""), 2, Len(builder.frontMatter) + 1)
      = [i \in 1..Len(builder.frontMatter) |->
           builder.frontMatter[i].key \o ": " \o builder.frontMatter[i].value]

\* C22: each body method - title, heading, paragraph, image, link and
\* list(items) - appends exactly one body block per call, after the
\* existing blocks, so that the number of body blocks is the number of
\* body-method calls made.
C22_OneBlockPerBodyCall ==
  [][builder'.body # builder.body =>
       /\ Len(builder'.body) = Len(builder.body) + 1
       /\ SubSeq(builder'.body, 1, Len(builder.body)) = builder.body
    ]_vars

\* C23: timeOperation(name, op) captures the timing whether op completes
\* or fails: in both cases a measurement for name is stored afterwards, in
\* the place of any earlier one of that name, and the measurements under
\* other names are unchanged.
C23_TimingAlwaysCaptured ==
  [][last'.op = "timeOperation" =>
       /\ perf'.timed \in DOMAIN perf'.metrics
       /\ perf'.metrics[perf'.timed] = perf'.elapsed
       /\ \A n \in DOMAIN perf.metrics \ {perf'.timed} :
            n \in DOMAIN perf'.metrics /\ perf'.metrics[n] = perf.metrics[n]
    ]_vars

C25_InitProjectEntersProject ==
  [][(/\ last'.op = "initProject" /\ Len(calls') = 1
      /\ res'.success
      /\ LastTempDir' # NullDir
      /\ PathJoin(LastTempDir', <<calls'[1].argv[2]>>) \in dirs')
       => /\ last'.status = "ok"
          /\ cwd' = IF calls'[1].argv[2] = "." THEN cwd
                    ELSE LastTempDir' \o <<calls'[1].argv[2]>>]_vars

\* C26: once navigateToPage(p) has returned normally for a page the tool
\* added, the process is in the directory that holds the page.yml of p,
\* inside the project initProject created, and expectFileExists of a
\* section file name passes when the tool has put that file in this page
\* directory.
C26_PageContext ==
  /\ (last.op = "navigateToPage" /\ last.status = "ok"
        /\ LastTempDir \o <<"p">> \in dirs)
       => /\ cwd \o <<"page.yml">> \in DOMAIN files
          /\ IsPrefix(LastTempDir \o <<"p">>, cwd)
  /\ (last.op = "expectFileExists" /\ got.op = last.op
        /\ got.path = <<"hero.md">>
        /\ cwd \o <<"page.yml">> \in DOMAIN files
        /\ cwd \o got.path \in DOMAIN files)
       => last.status = "ok"

\* the section file is in the page directory the process is in, and the
\* assertion about its name fails
C26_SectionFileNotSeen ==
  /\ last.op = "expectFileExists" /\ got.path = <<"hero.md">>
  /\ cwd = LastTempDir \o <<"pages", "about">>
  /\ cwd \o <<"hero.md">> \in DOMAIN files
  /\ last.status = "assertFailed"

\* the project in the sandbox root has the layout of the kind: a single-site
\* project has site.yml and pages and no sites, a workspace has sites and
\* not the single-site layout, a minimal project has neither pages nor sites
HasLayout(type) ==
  LET Has(x) == PathExists(Fs, LastTempDir \o <<x>>) IN
  /\ Has("package.json") /\ Has("uniweb.config.js")
  /\ type = "single-site" => Has("site.yml") /\ Has("pages") /\ ~Has("sites")
  /\ type = "workspace" => Has("sites") /\ ~(Has("site.yml") /\ Has("pages"))
  /\ type = "minimal" => ~Has("pages") /\ ~Has("sites")

\* C27: expectStandardProjectStructure(type) passes only for a project
\* whose layout is exactly of that kind: "single-site" needs site.yml and
\* pages at the root and no sites, "workspace" needs sites and rejects the
\* root-level single-site layout, "minimal" needs package.json and
\* uniweb.config.js and rejects a project with pages or sites.
C27_StructureIsExact ==
  (last.op = "expectStandardProjectStructure" /\ last.status = "ok")
    => HasLayout(got.path[1])

\* C28: from setup on, after cd, navigateToProject, navigateToSite,
\* navigateToPage or initProject has returned normally - cd("..") among
\* them - the working directory of the process is the directory of the
\* sandbox or one below it.
C28_StaysInSandbox ==
  (last.op \in {"cd", "navigateToProject", "navigateToSite",
                "navigateToPage", "initProject"}
     /\ last.status = "ok")
    => IsPrefix(LastTempDir, cwd)

\* C29: once a cleanup of the environment has returned without a warning,
\* none of the directories its setup calls have allocated is left - also
\* when setup was called again with no cleanup in between, and when cleanup
\* is called twice.
C29_NoDirectoryLeaked ==
  (last.op = "cleanup" /\ last.status = "ok" /\ ~last.warned) =>
    \A i \in 1..nTmp : TmpBase \o <<TmpNames[i]>> \notin dirs

\* C30: the file setSection verifies for a locale lies under the directory
\* addLocale verifies for that locale and the same site: below
\* locales/<locale> when no site is given, below the locale directory of
\* the site otherwise.
C30_LocaleRootsAgree ==
  (last.op = "setSection" /\ ToolCalled
     /\ FlagValue(LastCall.argv, "--locale") # "") =>
    \A p \in last.examined :
      IsPrefix(LastTempDir
                 \o LocalePath(FlagValue(LastCall.argv, "--locale"),
                      [NoOptions EXCEPT
                         !.site = FlagValue(LastCall.argv, "--site")]),
               p)

====
